---------------------------- MODULE Spec2Model ----------------------------
(***************************************************************************)
(* LampNode: the control core of a WiFi lamp (ESP8266 + RGB pixel strip).  *)
(* The model follows src/LampNode.ino: the MQTT callback (command router), *)
(* the loop() scheduler, the colour fade, the procedural patterns and the  *)
(* brightness step.                                                        *)
(***************************************************************************)
EXTENDS Integers, Sequences, FiniteSets, TLC

(***************************************************************************)
(* Program constants                                                       *)
(***************************************************************************)
PixelCount == 16
ModeCount == 4
TransitionSteps == 50
ChannelMax == 255

\* enum Modes {COLOUR, TWINKLE, RAINBOW, CYCLE}
COLOUR == 0
TWINKLE == 1
RAINBOW == 2
CYCLE == 3

\* the periods of the timers, in milliseconds
LED_UPDATE_TIMEOUT == 20
RAINBOW_UPDATE_TIMEOUT == 30
CYCLE_UPDATE_TIMEOUT == 40
TWINKLE_UPDATE_TIMEOUT == 50
BRIGHTNESS_UPDATE_TIMEOUT == 50

\* float coefficient: a 32-bit float between 0.25 and 2 is a whole number of
\* units of 2^-26, and the model holds that number; 1.0 and 0.5 in these units
CoefficientOne == 67108864
CoefficientHalf == 33554432

(***************************************************************************)
(* Bounds of the model                                                     *)
(***************************************************************************)
\* messages the callback handles in one run of the main specification
MaxMessages == 5
\* messages the callback handles in one run of the router specification
MaxRouted == 2
\* Cycle frames (values of cnt) the main specification follows
MaxCycle == 2
\* Rainbow frames (values of the phase offset) the main specification follows
MaxRainbow == 1
\* pixels random(PixelCount) may draw in the main specification
MaxTwinklePix == 1
\* position in the transition table up to which the main specification
\* follows a fade
MaxFade == 4
\* commits of the same target that are followed
MaxCommits == 2
\* messages handled in a run that starts in Cycle mode, the three mode
\* commands that led there included
MaxReentry == 7
\* pixels alight up to which Twinkle is followed over the whole strip
MaxLit == 2
\* messages handled in a run of the brightness specification
MaxBright == 3
\* Press and Release commands handled in one run
MaxPress == 2
\* messages handled in a run that starts as a fade begins, the four mode
\* commands that led there included
MaxLive == 6
\* milliseconds the clock is followed for
MaxTime == 60
\* mode commands handled while the clock is followed
MaxTimed == 3

(***************************************************************************)
(* C arithmetic                                                            *)
(***************************************************************************)
\* C's integer division truncates toward zero
Abs(a) == IF a < 0 THEN -a ELSE a

CDiv(a, b) ==
  LET q == Abs(a) \div Abs(b)
  IN  IF (a < 0) # (b < 0) THEN -q ELSE q

\* conversion to uint8_t / byte
Byte(x) == x % 256

\* unsigned long, 32 bits wide: a value is the pair <<high, low>> of its
\* 16-bit halves
Half == 65536

\* a + n modulo 2^32, for 0 <= n < 2^16
Add32(a, n) ==
  LET lo == a[2] + n
  IN  <<(a[1] + lo \div Half) % Half, lo % Half>>

\* a - b modulo 2^32
Sub32(a, b) ==
  LET lo == a[2] - b[2]
      borrow == IF lo < 0 THEN 1 ELSE 0
  IN  <<(a[1] - b[1] - borrow) % Half, lo % Half>>

\* a >= n, for 0 <= n < 2^16
Ge32(a, n) == a[1] > 0 \/ a[2] >= n

\* timerExpired() that compares the clock with start + expiry, unwrapped
timerExpiredNoWrap(now, startTime, expiryTime) ==
  LET lo == startTime[2] + expiryTime
      hi == startTime[1] + lo \div Half
  IN  now[1] > hi \/ (now[1] = hi /\ now[2] >= lo % Half)

\* timerExpired(startTime, expiryTime), now the value millis() returns to it
timerExpired(now, startTime, expiryTime) ==
  Ge32(Sub32(now, startTime), expiryTime)

\* the constant 0.025 of coefficient += 0.025 is the double next to 1/40; in
\* units of 2^-26 it is 1677721.6, so a sum or a difference with a float is a
\* whole number of units plus a fraction that is neither 0 nor 1/2
StepFloor == 1677721

\* the spacing of the 32-bit floats around n units: 24 significant bits
FloatGrid(n) ==
  IF n >= CoefficientOne THEN 8
  ELSE IF n >= CoefficientHalf THEN 4
  ELSE 2

\* the 32-bit float nearest to n units plus a fraction strictly between 0
\* and 1 (the fraction never makes a tie)
RoundFloat(n) ==
  LET g == FloatGrid(n)
      q == n % g
  IN  IF 2 * q < g THEN n - q ELSE n - q + g

\* coefficient + 0.025 and coefficient - 0.025, computed in double and stored
\* into the float
FloatPlusStep(c) == RoundFloat(c + StepFloor)
FloatMinusStep(c) == RoundFloat(c - StepFloor - 1)

RECURSIVE Pow2Below(_)
\* the largest power of two that is at most i, for i >= 1
Pow2Below(i) == IF i < 2 THEN 1 ELSE 2 * Pow2Below(i \div 2)

\* (int)(b * c): the int b times the float c, the product rounded to a
\* 32-bit float and then truncated; b is 0 .. 1023. The product b * c is
\* split so that no intermediate value needs more than 31 bits.
FloatTimesToInt(b, c) ==
  LET hi == c \div 8192
      lo == c % 8192
      bh == b * hi
      t == (bh % 8192) * 8192 + b * lo
      whole == bh \div 8192 + t \div CoefficientOne
      frac == t % CoefficientOne
      g == IF whole = 0 THEN 4 ELSE 8 * Pow2Below(whole)
  IN  IF 2 * frac >= 2 * CoefficientOne - g THEN whole + 1 ELSE whole

Pixels == 0 .. (PixelCount - 1)
Channels == 1 .. 3
Black == <<0, 0, 0>>
AllOff == [p \in Pixels |-> Black]

(***************************************************************************)
(* Channel interpolator                                                    *)
(***************************************************************************)
\* map() with the quotient rounded toward minus infinity
mapFloor(x, in_min, in_max, out_min, out_max) ==
  ((x - in_min) * (out_max - out_min)) \div (in_max - in_min) + out_min

\* map() dividing by the number of steps instead of the last index
mapShort(x, in_min, in_max, out_min, out_max) ==
  CDiv((x - in_min) * (out_max - out_min), in_max - in_min + 1) + out_min

\* map() over the inclusive range of outputs, out_max - out_min + 1 values
mapInclusive(x, in_min, in_max, out_min, out_max) ==
  CDiv((x - in_min) * (out_max - out_min + 1), in_max - in_min) + out_min

\* Arduino map(): (x - in_min) * (out_max - out_min) / (in_max - in_min) + out_min
\* on long operands, the division truncating toward zero
map(x, in_min, in_max, out_min, out_max) ==
  CDiv((x - in_min) * (out_max - out_min), in_max - in_min) + out_min

Addrs == 0 .. (TransitionSteps - 1)

\* the table setColourTransition() writes into transition[50][3]
setColourTransition(current, target) ==
  [a \in Addrs |->
     [i \in Channels |-> map(a, 0, TransitionSteps - 1, current[i], target[i])]]

ZeroTable == [a \in Addrs |-> Black]

(***************************************************************************)
(* Hue wheel                                                               *)
(***************************************************************************)
\* Wheel() without WheelPos = 255 - WheelPos
WheelNoInvert(WheelPos) ==
  LET w == Byte(WheelPos)
  IN  IF w < 85 THEN <<255 - w * 3, 0, w * 3>>
      ELSE IF w < 170 THEN <<0, (w - 85) * 3, 255 - (w - 85) * 3>>
      ELSE <<(w - 170) * 3, 255 - (w - 170) * 3, 0>>

Wheel(WheelPos) ==
  LET w == Byte(255 - Byte(WheelPos))
  IN  IF w < 85 THEN <<255 - w * 3, 0, w * 3>>
      ELSE IF w < 170 THEN <<0, (w - 85) * 3, 255 - (w - 85) * 3>>
      ELSE <<(w - 170) * 3, 255 - (w - 170) * 3, 0>>

RECURSIVE BitOr(_, _)
BitOr(a, b) ==
  IF a = 0 THEN b
  ELSE IF b = 0 THEN a
  ELSE (IF a % 2 = 1 \/ b % 2 = 1 THEN 1 ELSE 0) + 2 * BitOr(a \div 2, b \div 2)

\* (B & 0xE0) | ((G & 0xE0)>>3) | (R >> 6), returned as a byte
rgb2wheel(R, G, B) ==
  Byte(BitOr(BitOr(((B \div 32) % 8) * 32, ((G \div 32) % 8) * 4), R \div 64))

(***************************************************************************)
(* C strings: a payload is the sequence of its characters                  *)
(***************************************************************************)
Digits == <<"0", "1", "2", "3", "4", "5", "6", "7", "8", "9">>
IsDigit(c) == \E d \in 1 .. 10 : Digits[d] = c
DigitVal(c) == (CHOOSE d \in 1 .. 10 : Digits[d] = c) - 1
IsSpace(c) == c \in {" ", "\t", "\n", "\r"}

\* the delimiters "{\":" both parsers hand to strtok
Delims == {"{", "\"", ":"}

\* strstr(input, needle) != NULL
strstr(input, needle) ==
  \E i \in 1 .. (Len(input) - Len(needle) + 1) :
    SubSeq(input, i, i + Len(needle) - 1) = needle

\* strtok: the token that starts at or after position from, as its first and
\* last index in input; first = 0 stands for the NULL it returns when only
\* delimiters (or nothing) are left
strtokFrom(input, from) ==
  LET starts == {i \in from .. Len(input) : input[i] \notin Delims}
  IN  IF starts = {} THEN [first |-> 0, last |-> 0]
      ELSE LET b == CHOOSE i \in starts : \A j \in starts : i <= j
               ends == {i \in b .. Len(input) : input[i] \in Delims}
               e == IF ends = {} THEN Len(input) + 1
                    ELSE CHOOSE i \in ends : \A j \in ends : i <= j
           IN  [first |-> b, last |-> e - 1]

\* strtok(input, delims): the first token
strtokFirst(input) == strtokFrom(input, 1)

\* strtok(NULL, delims) after a first token tok: the scan resumes behind the
\* delimiter that ended tok
strtokNext(input, tok) == strtokFrom(input, tok.last + 2)

TokenText(input, tok) == SubSeq(input, tok.first, tok.last)

RECURSIVE DigitRun(_, _, _)
\* value of the run of digits of s that starts at position i, with acc so far
DigitRun(s, i, acc) ==
  IF i > Len(s) \/ ~IsDigit(s[i]) THEN acc
  ELSE DigitRun(s, i + 1, acc * 10 + DigitVal(s[i]))

RECURSIVE SkipSpace(_, _)
SkipSpace(s, i) ==
  IF i <= Len(s) /\ IsSpace(s[i]) THEN SkipSpace(s, i + 1) ELSE i

\* atoi: leading white space, an optional sign, then digits; 0 when no digits
atoi(s) ==
  LET i == SkipSpace(s, 1)
      neg == i <= Len(s) /\ s[i] = "-"
      j == IF i <= Len(s) /\ s[i] \in {"-", "+"} THEN i + 1 ELSE i
      v == DigitRun(s, j, 0)
  IN  IF neg THEN -v ELSE v

(***************************************************************************)
(* Topics and outbound messages                                            *)
(***************************************************************************)
MQTTDeviceInfoInbox == "/inbox/LampNode01/deviceInfo"
MQTTDeviceInfoOutbox == "/outbox/LampNode01/deviceInfo"
MQTTPowerInbox == "/inbox/LampNode01/Power"
MQTTPowerOutbox == "/outbox/LampNode01/Power"
MQTTModeInbox == "/inbox/LampNode01/Mode"
MQTTModeOutbox == "/outbox/LampNode01/ModeSelection"
MQTTColorInbox == "/inbox/LampNode01/Color"
MQTTColorOutbox == "/outbox/LampNode01/Color"
MQTTBrightnessInbox == "/inbox/LampNode01/Brightness"
MQTTBrightnessOutbox == "/outbox/LampNode01/Brightness"

\* the values the constant string MQTTDeviceInfo carries in its end points
MQTTDeviceInfo ==
  [power |-> TRUE, mode |-> "None", red |-> 0, green |-> 0, blue |-> 0,
   brightness |-> 3]

\* client.publish(topic, payload): payload {"value":<text>} or, for a number
\* printed with %u, {"value":<num>} (the numbers the model's payloads carry
\* are not negative, so %u prints them as they are); num is -1 when the
\* payload has no number
Publish(topic, text, num) == [topic |-> topic, text |-> text, num |-> num]

ModeName(m) ==
  CASE m = COLOUR -> "Color"
    [] m = TWINKLE -> "Twinkle"
    [] m = RAINBOW -> "Rainbow"
    [] m = CYCLE -> "Cycle"

(***************************************************************************)
(* State                                                                   *)
(***************************************************************************)
VARIABLES
  Mode,              \* enum Modes Mode
  standby,           \* bool standby
  target_met,        \* bool target_met
  brightness,        \* int brightness
  target_colour,     \* unsigned int target_colour[3]
  current_colour,    \* unsigned int current_colour[3]
  transition,        \* unsigned int transition[50][3]
  addr,              \* static int addr of fadeToColourTarget
  leds,              \* CRGB leds[PixelCount]
  shown,             \* the frame FastLED.show() last pushed to the strip
  hwBrightness,      \* the scale FastLED.setBrightness() last set
  cnt,               \* int cnt (Cycle counter)
  offset,            \* static int offset of rainbow
  last_brightness,   \* static int last_brightness of set_brightness
  brightness_pulse,  \* static int brightness_pulse of set_brightness
  coefficient,       \* static float coefficient, in units of 2^-26
  pulse_direction,   \* static bool pulse_direction of set_brightness
  pulse_animation,   \* bool pulse_animation
  pulse,             \* unsigned int pulse[30][3]
  pulse_addr,        \* int pulse_addr
  runTime,           \* unsigned long runTime: millis() as it was last read
  timers,            \* the start times brightnessTimer, ledTimer,
                     \* twinkleTimer, rainbowTimer, cycleTimer
  elapsed,           \* history: the milliseconds that have really passed
                     \* since each timer was set, and in all
  cursor_direction,  \* bool pulse_direction of src/LampNode/LampNode.ino,
                     \* the direction of pulse_addr (set_brightness has a
                     \* static of the same name)
  outbox,            \* what the last handler published, in order
  lastCmd,           \* history: the handler that ran last and its input
  delivered,         \* history: messages handled so far
  modeRun            \* history: Mode, target and brightness before a run of
                     \* mode commands, and the length of the run

lamp ==
  <<Mode, standby, target_met, brightness, target_colour, current_colour,
    transition, addr, leds, shown, hwBrightness, cnt, offset, last_brightness,
    brightness_pulse, coefficient, pulse_direction, pulse_animation>>

\* the press/hold pulse: its table, its cursor and the direction of the
\* cursor
press == <<pulse, pulse_addr, cursor_direction>>

\* the clock and the timers. They are followed in SpecTimers; in the other
\* specifications the answers of timerExpired() are inputs of loop()
clock == <<runTime, timers, elapsed>>

vars == <<lamp, press, clock, outbox, lastCmd, delivered, modeRun>>

TimerNames ==
  {"brightnessTimer", "ledTimer", "twinkleTimer", "rainbowTimer", "cycleTimer"}

\* setup() sets every timer as the clock starts
ClockInit ==
  /\ runTime = <<0, 0>>
  /\ timers = [t \in TimerNames |-> <<0, 0>>]
  /\ elapsed = [t \in TimerNames \cup {"total"} |-> 0]

PulseAddrs == 0 .. 29

\* the globals of the pulse as initialised: pulse[30][3] zeroed,
\* pulse_addr = 0, pulse_direction = 1
PressInit ==
  /\ pulse = [a \in PulseAddrs |-> Black]
  /\ pulse_addr = 0
  /\ cursor_direction = TRUE

\* globals as initialised at lines 110-153, after setup()
LampInit ==
  /\ Mode = COLOUR
  /\ standby = FALSE
  /\ target_met = FALSE
  /\ brightness = 155
  /\ target_colour = Black
  /\ current_colour = Black
  /\ transition = ZeroTable
  /\ addr = 0
  /\ leds = AllOff
  /\ shown = AllOff
  /\ hwBrightness = 255
  /\ cnt = 0
  /\ offset = 0
  /\ last_brightness = 153
  /\ brightness_pulse = 153
  /\ coefficient = CoefficientOne
  /\ pulse_direction = FALSE
  /\ pulse_animation = FALSE

\* history: no mode command since the lamp had mode m, target t and
\* brightness b
NoRun(m, t, b) == [start |-> m, n |-> 0, target |-> t, brightness |-> b]

NoCmd == [op |-> "setup", topic |-> "", input |-> <<>>, fault |-> FALSE]

\* the lamp after setup()
Init ==
  /\ LampInit
  /\ outbox = <<>>
  /\ lastCmd = NoCmd
  /\ delivered = 0
  /\ modeRun = NoRun(COLOUR, target_colour, brightness)
  /\ PressInit
  /\ ClockInit

(***************************************************************************)
(* Helpers of the handlers                                                 *)
(***************************************************************************)
fadeVars == <<target_met, target_colour, transition>>
brightVars ==
  <<hwBrightness, last_brightness, brightness_pulse, coefficient,
    pulse_direction>>

\* applyColour(uint8_t r, g, b): the frame it writes and shows; the test
\* r < 256 && g < 256 && b < 256 is true of every uint8_t
applyColour(r, g, b) == [p \in Pixels |-> <<Byte(r), Byte(g), Byte(b)>>]

setColour(r, g, b) ==
  /\ current_colour' = <<r, g, b>>
  /\ IF ~standby
       THEN /\ leds' = applyColour(r, g, b)
            /\ shown' = leds'
       ELSE UNCHANGED <<leds, shown>>

setColourTarget(r, g, b) ==
  /\ target_met' = FALSE
  /\ target_colour' = <<r, g, b>>
  /\ transition' = setColourTransition(current_colour, <<r, g, b>>)

\* a mode command that skips a mode
NextModeSkip(m) == (m + 2) % ModeCount

NextMode(m) == (m + 1) % ModeCount

\* setTheMode() without the recommit of the target on entering Color
setTheModeNoRebuild(temp) ==
  /\ outbox' = <<Publish(MQTTModeOutbox, ModeName(temp), -1)>>
  /\ IF temp = COLOUR
       THEN UNCHANGED <<current_colour, leds, shown>>
       ELSE setColour(0, 0, 0)
  /\ Mode' = temp
  /\ UNCHANGED <<standby, brightness, addr, cnt, offset, brightVars,
                 pulse_animation, fadeVars>>

\* setTheMode() that puts brightness back to its initial value
setTheModeResetsBrightness(temp) ==
  /\ outbox' = <<Publish(MQTTModeOutbox, ModeName(temp), -1)>>
  /\ IF temp = COLOUR
       THEN /\ IF ~standby
                 THEN setColourTarget(target_colour[1], target_colour[2],
                                      target_colour[3])
                 ELSE UNCHANGED fadeVars
            /\ UNCHANGED <<current_colour, leds, shown>>
       ELSE /\ setColour(0, 0, 0)
            /\ UNCHANGED fadeVars
  /\ Mode' = temp
  /\ brightness' = 155
  /\ UNCHANGED <<standby, addr, cnt, offset, brightVars, pulse_animation>>

\* setTheMode() that publishes nothing while the lamp is in standby
setTheModeQuietInStandby(temp) ==
  /\ outbox' = IF standby THEN <<>>
               ELSE <<Publish(MQTTModeOutbox, ModeName(temp), -1)>>
  /\ IF temp = COLOUR
       THEN /\ IF ~standby
                 THEN setColourTarget(target_colour[1], target_colour[2],
                                      target_colour[3])
                 ELSE UNCHANGED fadeVars
            /\ UNCHANGED <<current_colour, leds, shown>>
       ELSE /\ setColour(0, 0, 0)
            /\ UNCHANGED fadeVars
  /\ Mode' = temp
  /\ UNCHANGED <<standby, brightness, addr, cnt, offset, brightVars,
                 pulse_animation>>

setTheMode(temp) ==
  /\ outbox' = <<Publish(MQTTModeOutbox, ModeName(temp), -1)>>
  /\ IF temp = COLOUR
       THEN /\ IF ~standby
                 THEN setColourTarget(target_colour[1], target_colour[2],
                                      target_colour[3])
                 ELSE UNCHANGED fadeVars
            /\ UNCHANGED <<current_colour, leds, shown>>
       ELSE /\ setColour(0, 0, 0)
            /\ UNCHANGED fadeVars
  /\ Mode' = temp
  /\ UNCHANGED <<standby, brightness, addr, cnt, offset, brightVars,
                 pulse_animation>>

\* setStandby() that leaves the strip as it is on power-off
setStandbyNoBlank(state) ==
  /\ IF state
       THEN /\ outbox' = <<Publish(MQTTPowerOutbox, "false", -1)>>
            /\ UNCHANGED fadeVars
       ELSE /\ setColourTarget(target_colour[1], target_colour[2],
                               target_colour[3])
            /\ outbox' = <<Publish(MQTTPowerOutbox, "true", -1)>>
  /\ standby' = state
  /\ UNCHANGED <<Mode, brightness, current_colour, addr, cnt, offset,
                 brightVars, pulse_animation, leds, shown>>

\* setStandby() that switches off by setting brightness to 0
setStandbyDim(state) ==
  /\ IF state
       THEN /\ leds' = applyColour(0, 0, 0)
            /\ shown' = leds'
            /\ outbox' = <<Publish(MQTTPowerOutbox, "false", -1)>>
            /\ brightness' = 0
            /\ UNCHANGED fadeVars
       ELSE /\ setColourTarget(target_colour[1], target_colour[2],
                               target_colour[3])
            /\ outbox' = <<Publish(MQTTPowerOutbox, "true", -1)>>
            /\ UNCHANGED <<leds, shown, brightness>>
  /\ standby' = state
  /\ UNCHANGED <<Mode, current_colour, addr, cnt, offset, brightVars,
                 pulse_animation>>

\* setStandby() that does not recommit the target on power-on
setStandbyNoRebuild(state) ==
  /\ IF state
       THEN /\ leds' = applyColour(0, 0, 0)
            /\ shown' = leds'
            /\ outbox' = <<Publish(MQTTPowerOutbox, "false", -1)>>
       ELSE /\ outbox' = <<Publish(MQTTPowerOutbox, "true", -1)>>
            /\ UNCHANGED <<leds, shown>>
  /\ standby' = state
  /\ UNCHANGED <<Mode, brightness, current_colour, addr, cnt, offset,
                 brightVars, pulse_animation, fadeVars>>

setStandby(state) ==
  /\ IF state
       THEN /\ leds' = applyColour(0, 0, 0)
            /\ shown' = leds'
            /\ outbox' = <<Publish(MQTTPowerOutbox, "false", -1)>>
            /\ UNCHANGED fadeVars
       ELSE /\ setColourTarget(target_colour[1], target_colour[2],
                               target_colour[3])
            /\ outbox' = <<Publish(MQTTPowerOutbox, "true", -1)>>
            /\ UNCHANGED <<leds, shown>>
  /\ standby' = state
  /\ UNCHANGED <<Mode, brightness, current_colour, addr, cnt, offset,
                 brightVars, pulse_animation>>

\* the exception a read through a NULL pointer raises restarts the device:
\* every global is initialised again
Restart ==
  /\ Mode' = COLOUR
  /\ standby' = FALSE
  /\ target_met' = FALSE
  /\ brightness' = 155
  /\ target_colour' = Black
  /\ current_colour' = Black
  /\ transition' = ZeroTable
  /\ addr' = 0
  /\ leds' = AllOff
  /\ shown' = AllOff
  /\ hwBrightness' = 255
  /\ cnt' = 0
  /\ offset' = 0
  /\ last_brightness' = 153
  /\ brightness_pulse' = 153
  /\ coefficient' = CoefficientOne
  /\ pulse_direction' = FALSE
  /\ pulse_animation' = FALSE
  /\ outbox' = <<>>

\* atoi(NULL) is undefined: the read of address 0 faults and the device
\* restarts, or it reads no digit and atoi returns 0
AtoiNullOutcomes == {"fault", "zero"}

\* command == "red": command points into the array input on the stack, the
\* literal is another object, so the two pointers are never equal
SamePointer(tok, literal) == FALSE

Ignore ==
  /\ outbox' = <<>>
  /\ UNCHANGED lamp

(***************************************************************************)
(* callback: the command router                                            *)
(***************************************************************************)
\* the Color branch with the token compared by its text, as strcmp() does
ColorCommandStrcmp(input, ub) ==
  LET command == strtokFirst(input)
      value == strtokNext(input, command)
      tempColor == IF value.first = 0 THEN 0
                   ELSE atoi(TokenText(input, value))
      name == IF command.first = 0 THEN <<>> ELSE TokenText(input, command)
  IN  IF command.first # 0 /\ value.first = 0 /\ ub = "fault"
        THEN Restart
      ELSE IF name = <<"r", "e", "d">>
        THEN /\ setColourTarget(tempColor, target_colour[2], target_colour[3])
             /\ outbox' = <<>>
             /\ UNCHANGED <<Mode, standby, brightness, current_colour, addr,
                            leds, shown, cnt, offset, brightVars,
                            pulse_animation>>
      ELSE IF name = <<"g", "r", "e", "e", "n">>
        THEN /\ setColourTarget(target_colour[1], tempColor, target_colour[3])
             /\ outbox' = <<>>
             /\ UNCHANGED <<Mode, standby, brightness, current_colour, addr,
                            leds, shown, cnt, offset, brightVars,
                            pulse_animation>>
      ELSE IF name = <<"b", "l", "u", "e">>
        THEN /\ setColourTarget(target_colour[1], target_colour[2], tempColor)
             /\ outbox' = <<>>
             /\ UNCHANGED <<Mode, standby, brightness, current_colour, addr,
                            leds, shown, cnt, offset, brightVars,
                            pulse_animation>>
      ELSE Ignore

\* the Color branch: strtok, atoi, then the three comparisons of command
ColorCommand(input, ub) ==
  LET command == strtokFirst(input)
      value == strtokNext(input, command)
      \* read only when command is not NULL; 0 stands for what atoi(NULL)
      \* returns when it returns
      tempColor == IF value.first = 0 THEN 0
                   ELSE atoi(TokenText(input, value))
  IN  IF command.first # 0 /\ value.first = 0 /\ ub = "fault"
        THEN Restart
      ELSE IF SamePointer(command, "red")
        THEN /\ setColourTarget(tempColor, target_colour[2], target_colour[3])
             /\ outbox' = <<>>
             /\ UNCHANGED <<Mode, standby, brightness, current_colour, addr,
                            leds, shown, cnt, offset, brightVars,
                            pulse_animation>>
      ELSE IF SamePointer(command, "green")
        THEN /\ setColourTarget(target_colour[1], tempColor, target_colour[3])
             /\ outbox' = <<>>
             /\ UNCHANGED <<Mode, standby, brightness, current_colour, addr,
                            leds, shown, cnt, offset, brightVars,
                            pulse_animation>>
      ELSE IF SamePointer(command, "blue")
        THEN /\ setColourTarget(target_colour[1], target_colour[2], tempColor)
             /\ outbox' = <<>>
             /\ UNCHANGED <<Mode, standby, brightness, current_colour, addr,
                            leds, shown, cnt, offset, brightVars,
                            pulse_animation>>
      ELSE Ignore

\* brightness_temp >= 0 || brightness_temp < 256
BrightnessAccepted(brightness_temp) ==
  brightness_temp >= 0 \/ brightness_temp < 256

\* the Brightness branch with atoi() applied to the first token, the name of
\* the field
BrightnessCommandFirstToken(input, ub) ==
  LET command == strtokFirst(input)
      value == strtokNext(input, command)
      brightness_temp == atoi(TokenText(input, command))
  IN  IF command.first = 0
        THEN Ignore
      ELSE IF value.first = 0 /\ ub = "fault"
        THEN Restart
      ELSE IF BrightnessAccepted(brightness_temp)
        THEN /\ brightness' = brightness_temp
             /\ outbox' = <<Publish(MQTTBrightnessOutbox, "", brightness_temp)>>
             /\ UNCHANGED <<Mode, standby, fadeVars, current_colour, addr,
                            leds, shown, cnt, offset, brightVars,
                            pulse_animation>>
      ELSE Ignore

\* the Brightness branch. sprintf() writes the confirmation {"value":<n>}
\* into input from the first token on and publish() sends that text: num is
\* the number it carries. For the payloads of the model the text ends within
\* the 16 bytes the array input occupies on the stack.
BrightnessCommand(input, ub) ==
  LET command == strtokFirst(input)
      value == strtokNext(input, command)
      brightness_temp == IF value.first = 0 THEN 0
                         ELSE atoi(TokenText(input, value))
  IN  IF command.first = 0
        THEN Ignore
      ELSE IF value.first = 0 /\ ub = "fault"
        THEN Restart
      ELSE IF BrightnessAccepted(brightness_temp)
        THEN /\ brightness' = brightness_temp
             /\ outbox' = <<Publish(MQTTBrightnessOutbox, "", brightness_temp)>>
             /\ UNCHANGED <<Mode, standby, fadeVars, current_colour, addr,
                            leds, shown, cnt, offset, brightVars,
                            pulse_animation>>
      ELSE Ignore

\* whether this message makes its handler call atoi(NULL)
AtoiNull(topic, input) ==
  /\ topic \in {MQTTColorInbox, MQTTBrightnessInbox}
  /\ strtokFirst(input).first # 0
  /\ strtokNext(input, strtokFirst(input)).first = 0

\* callback() that takes a topic it does not know for a mode command
callbackDefaultMode(topic, input, ub) ==
  IF topic = MQTTDeviceInfoInbox
    THEN /\ outbox' = <<Publish(MQTTDeviceInfoOutbox, "MQTTDeviceInfo", -1)>>
         /\ UNCHANGED lamp
  ELSE IF topic = MQTTPowerInbox
    THEN IF strstr(input, <<"t", "r", "u", "e">>)
           THEN setStandby(FALSE)
         ELSE IF strstr(input, <<"f", "a", "l", "s", "e">>)
           THEN setStandby(TRUE)
         ELSE Ignore
  ELSE IF topic = MQTTModeInbox
    THEN setTheMode(NextMode(Mode))
  ELSE IF topic = MQTTColorInbox
    THEN ColorCommand(input, ub)
  ELSE IF topic = MQTTBrightnessInbox
    THEN BrightnessCommand(input, ub)
  ELSE setTheMode(NextMode(Mode))

callback(topic, input, ub) ==
  IF topic = MQTTDeviceInfoInbox
    THEN /\ outbox' = <<Publish(MQTTDeviceInfoOutbox, "MQTTDeviceInfo", -1)>>
         /\ UNCHANGED lamp
  ELSE IF topic = MQTTPowerInbox
    THEN IF strstr(input, <<"t", "r", "u", "e">>)
           THEN setStandby(FALSE)
         ELSE IF strstr(input, <<"f", "a", "l", "s", "e">>)
           THEN setStandby(TRUE)
         ELSE Ignore
  ELSE IF topic = MQTTModeInbox
    THEN setTheMode(NextMode(Mode))
  ELSE IF topic = MQTTColorInbox
    THEN ColorCommand(input, ub)
  ELSE IF topic = MQTTBrightnessInbox
    THEN BrightnessCommand(input, ub)
  ELSE Ignore

(***************************************************************************)
(* loop: the scheduler and the engines                                     *)
(***************************************************************************)
\* set_brightness(): the statics and the hardware scale after the call, and
\* whether it called FastLED.show()
set_brightness ==
  IF pulse_animation
    THEN LET scaled == FloatTimesToInt(brightness, coefficient)
             d1 == IF coefficient >= CoefficientOne THEN FALSE
                   ELSE pulse_direction
             d2 == IF coefficient <= CoefficientHalf THEN TRUE ELSE d1
         IN  [hw |-> Byte(scaled), last |-> last_brightness, pulse |-> scaled,
              coef |-> IF d2 THEN FloatPlusStep(coefficient)
                       ELSE FloatMinusStep(coefficient),
              dir |-> d2, show |-> Mode = COLOUR]
  ELSE IF coefficient < CoefficientOne
    THEN LET risen == FloatPlusStep(coefficient)
             scaled == FloatTimesToInt(brightness, risen)
         IN  [hw |-> Byte(scaled), last |-> last_brightness, pulse |-> scaled,
              coef |-> risen, dir |-> pulse_direction, show |-> FALSE]
  ELSE IF last_brightness # brightness
    THEN [hw |-> Byte(brightness), last |-> brightness,
          pulse |-> brightness_pulse, coef |-> coefficient,
          dir |-> pulse_direction, show |-> Mode = COLOUR]
  ELSE [hw |-> hwBrightness, last |-> last_brightness,
        pulse |-> brightness_pulse, coef |-> coefficient,
        dir |-> pulse_direction, show |-> FALSE]

\* fadeToColourTarget() that tests the cursor against the end of the table
\* with > in place of >=
fadeToColourTargetPastEnd(committed) ==
  IF ~target_met
    THEN /\ setColour(transition[addr][1], transition[addr][2],
                      transition[addr][3])
         /\ IF addr + 1 > TransitionSteps
              THEN target_met' = TRUE /\ addr' = 0
              ELSE target_met' = FALSE /\ addr' = addr + 1
    ELSE /\ UNCHANGED <<current_colour, leds, target_met, addr>>
         /\ shown' = committed

\* fadeToColourTarget() that stays on the last entry and never reports the
\* target met
fadeToColourTargetStuck(committed) ==
  IF ~target_met
    THEN /\ setColour(transition[addr][1], transition[addr][2],
                      transition[addr][3])
         /\ target_met' = FALSE
         /\ addr' = IF addr + 1 >= TransitionSteps THEN addr ELSE addr + 1
    ELSE /\ UNCHANGED <<current_colour, leds, target_met, addr>>
         /\ shown' = committed

\* fadeToColourTarget() that ends the fade one entry early
fadeToColourTargetEarly(committed) ==
  IF ~target_met
    THEN /\ setColour(transition[addr][1], transition[addr][2],
                      transition[addr][3])
         /\ IF addr + 1 >= TransitionSteps - 1
              THEN target_met' = TRUE /\ addr' = 0
              ELSE target_met' = FALSE /\ addr' = addr + 1
    ELSE /\ UNCHANGED <<current_colour, leds, target_met, addr>>
         /\ shown' = committed

\* fadeToColourTarget(); committed is the frame the strip shows when it is called
fadeToColourTarget(committed) ==
  IF ~target_met
    THEN /\ setColour(transition[addr][1], transition[addr][2],
                      transition[addr][3])
         /\ IF addr + 1 >= TransitionSteps
              THEN target_met' = TRUE /\ addr' = 0
              ELSE target_met' = FALSE /\ addr' = addr + 1
    ELSE /\ UNCHANGED <<current_colour, leds, target_met, addr>>
         /\ shown' = committed

\* coinFlip(): coin = random(2) - 1, true when coin is not 0
coinFlip(random2) == random2 - 1 # 0

\* twinkle() that clears the rest of the strip
twinkleClears(random30, randomPix, random2) ==
  LET val == rgb2wheel(target_colour[1], target_colour[2], target_colour[3])
      colour == Wheel(val + (random30 - 15))
  IN  /\ leds' = [p \in Pixels |->
                    IF p # randomPix THEN Black
                    ELSE IF coinFlip(random2) THEN colour ELSE Black]
      /\ shown' = leds'

\* twinkle() with the three values random() returns
twinkle(random30, randomPix, random2) ==
  LET val == rgb2wheel(target_colour[1], target_colour[2], target_colour[3])
      colour == Wheel(val + (random30 - 15))
  IN  /\ leds' = [leds EXCEPT ![randomPix] =
                    IF coinFlip(random2) THEN colour ELSE Black]
      /\ shown' = leds'

\* rainbow() that wraps the offset one step late
rainbowLateWrap ==
  LET stepVal == 256 \div PixelCount
  IN  /\ leds' = [i \in Pixels |-> Wheel(i * stepVal + offset)]
      /\ shown' = leds'
      /\ offset' = IF offset > 255 THEN 0 ELSE offset + 1

\* rainbow()
rainbow ==
  LET stepVal == 256 \div PixelCount
  IN  /\ leds' = [i \in Pixels |-> Wheel(i * stepVal + offset)]
      /\ shown' = leds'
      /\ offset' = IF offset >= 255 THEN 0 ELSE offset + 1

\* case CYCLE of loop()
cycle ==
  LET c == Wheel(cnt)
  IN  /\ setColour(c[1], c[2], c[3])
      /\ cnt' = IF cnt + 1 >= 256 THEN 0 ELSE cnt + 1

\* loop() whose case RAINBOW has no break and falls through into case CYCLE
loopFallThrough(brightnessExpired, modeExpired, rnd) ==
  /\ outbox' = <<>>
  /\ IF standby
       THEN UNCHANGED lamp
       ELSE LET b == set_brightness
                committed == IF brightnessExpired /\ b.show THEN leds ELSE shown
            IN  /\ IF brightnessExpired
                     THEN /\ hwBrightness' = b.hw
                          /\ last_brightness' = b.last
                          /\ brightness_pulse' = b.pulse
                          /\ coefficient' = b.coef
                          /\ pulse_direction' = b.dir
                     ELSE UNCHANGED brightVars
                /\ IF ~modeExpired
                     THEN /\ shown' = committed
                          /\ UNCHANGED <<current_colour, leds, target_met,
                                         addr, cnt, offset>>
                   ELSE IF Mode = COLOUR
                     THEN /\ fadeToColourTarget(committed)
                          /\ UNCHANGED <<cnt, offset>>
                   ELSE IF Mode = TWINKLE
                     THEN /\ twinkle(rnd.random30, rnd.randomPix, rnd.random2)
                          /\ UNCHANGED <<current_colour, target_met, addr,
                                         cnt, offset>>
                   ELSE IF Mode = RAINBOW
                     THEN /\ offset' = IF offset >= 255 THEN 0 ELSE offset + 1
                          /\ cycle
                          /\ UNCHANGED <<target_met, addr>>
                   ELSE /\ cycle
                        /\ UNCHANGED <<target_met, addr, offset>>
                /\ UNCHANGED <<Mode, standby, brightness, target_colour,
                               transition, pulse_animation>>

\* one iteration of loop(); brightnessExpired and modeExpired are what
\* timerExpired() answers for the brightness timer and for the timer of the
\* current mode, rnd the values random() returns
loop(brightnessExpired, modeExpired, rnd) ==
  /\ outbox' = <<>>
  /\ IF standby
       THEN UNCHANGED lamp
       ELSE LET b == set_brightness
                committed == IF brightnessExpired /\ b.show THEN leds ELSE shown
            IN  /\ IF brightnessExpired
                     THEN /\ hwBrightness' = b.hw
                          /\ last_brightness' = b.last
                          /\ brightness_pulse' = b.pulse
                          /\ coefficient' = b.coef
                          /\ pulse_direction' = b.dir
                     ELSE UNCHANGED brightVars
                /\ IF ~modeExpired
                     THEN /\ shown' = committed
                          /\ UNCHANGED <<current_colour, leds, target_met,
                                         addr, cnt, offset>>
                   ELSE IF Mode = COLOUR
                     THEN /\ fadeToColourTarget(committed)
                          /\ UNCHANGED <<cnt, offset>>
                   ELSE IF Mode = TWINKLE
                     THEN /\ twinkle(rnd.random30, rnd.randomPix, rnd.random2)
                          /\ UNCHANGED <<current_colour, target_met, addr,
                                         cnt, offset>>
                   ELSE IF Mode = RAINBOW
                     THEN /\ rainbow
                          /\ UNCHANGED <<current_colour, target_met, addr, cnt>>
                   ELSE /\ cycle
                        /\ UNCHANGED <<target_met, addr, offset>>
                /\ UNCHANGED <<Mode, standby, brightness, target_colour,
                               transition, pulse_animation>>

(***************************************************************************)
(* Inputs                                                                  *)
(***************************************************************************)
\* {"value":true}
PayloadTrue ==
  <<"{", "\"", "v", "a", "l", "u", "e", "\"", ":", "t", "r", "u", "e",
  "}">>

\* {"value":false}
PayloadFalse ==
  <<"{", "\"", "v", "a", "l", "u", "e", "\"", ":", "f", "a", "l", "s",
  "e", "}">>

\* an empty payload
PayloadEmpty ==
  <<>>

\* {"green": 200}
PayloadGreen200 ==
  <<"{", "\"", "g", "r", "e", "e", "n", "\"", ":", " ", "2", "0", "0",
  "}">>

\* {"red":999}
PayloadRed999 ==
  <<"{", "\"", "r", "e", "d", "\"", ":", "9", "9", "9", "}">>

\* {"blue":256}
PayloadBlue256 ==
  <<"{", "\"", "b", "l", "u", "e", "\"", ":", "2", "5", "6", "}">>

\* {"value":200}
PayloadValue200 ==
  <<"{", "\"", "v", "a", "l", "u", "e", "\"", ":", "2", "0", "0", "}">>

\* {"value":0}
PayloadValue0 ==
  <<"{", "\"", "v", "a", "l", "u", "e", "\"", ":", "0", "}">>

\* {"value":255}
PayloadValue255 ==
  <<"{", "\"", "v", "a", "l", "u", "e", "\"", ":", "2", "5", "5", "}">>

\* {"value": 999}
PayloadValue999 ==
  <<"{", "\"", "v", "a", "l", "u", "e", "\"", ":", " ", "9", "9", "9",
  "}">>

\* {"value":"x"}
PayloadValueText ==
  <<"{", "\"", "v", "a", "l", "u", "e", "\"", ":", "\"", "x", "\"", "}">>

\* 999, with no field name
PayloadBare ==
  <<"9", "9", "9">>

\* a topic the sketch does not handle
OtherTopic == "/inbox/LampNode01/Other"

Message(topic, input) == [topic |-> topic, input |-> input]

\* the messages that drive the lamp: power, mode and brightness commands
Messages ==
  { Message(MQTTPowerInbox, PayloadTrue),
    Message(MQTTPowerInbox, PayloadFalse),
    Message(MQTTPowerInbox, PayloadValue200),
    Message(MQTTModeInbox, PayloadTrue),
    Message(MQTTBrightnessInbox, PayloadValue200) }

\* every kind of message the router is tried on: each topic, with well-formed
\* and malformed payloads
RouterMessages ==
  Messages \cup
  { Message(MQTTDeviceInfoInbox, PayloadEmpty),
    Message(MQTTColorInbox, PayloadGreen200),
    Message(MQTTColorInbox, PayloadRed999),
    Message(MQTTColorInbox, PayloadBare),
    Message(MQTTBrightnessInbox, PayloadValue0),
    Message(MQTTBrightnessInbox, PayloadValue255),
    Message(MQTTBrightnessInbox, PayloadValue999),
    Message(MQTTBrightnessInbox, PayloadValueText),
    Message(MQTTBrightnessInbox, PayloadBare),
    Message(MQTTBrightnessInbox, PayloadEmpty),
    Message(OtherTopic, PayloadTrue) }

\* what random(30), random(PixelCount) and random(2) return in one twinkle()
RandomDraws ==
  [random30 : {0, 15, 29}, randomPix : 0 .. (MaxTwinklePix - 1),
   random2 : {0, 1}]

\* the draw recorded for an iteration that does not call twinkle()
NoDraw == [random30 |-> 0, randomPix |-> 0, random2 |-> 0]

(***************************************************************************)
(* Specification                                                           *)
(***************************************************************************)
\* the broker delivers one message and client.loop() runs callback on it
Deliver(m, ub) ==
  /\ callback(m.topic, m.input, ub)
  /\ delivered' = delivered + 1
  /\ lastCmd' = [op |-> "callback", topic |-> m.topic, input |-> m.input,
                 fault |-> AtoiNull(m.topic, m.input) /\ ub = "fault"]
  /\ modeRun' =
       IF m.topic = MQTTModeInbox
         THEN IF modeRun.n >= ModeCount
                THEN [NoRun(Mode, target_colour, brightness) EXCEPT !.n = 1]
                ELSE [modeRun EXCEPT !.n = @ + 1]
         ELSE NoRun(Mode', target_colour', brightness')
  /\ UNCHANGED <<press, clock>>

\* one iteration of loop()
Tick(brightnessExpired, modeExpired, rnd) ==
  /\ loop(brightnessExpired, modeExpired, rnd)
  /\ lastCmd' = [NoCmd EXCEPT !.op = "loop"]
  /\ UNCHANGED <<delivered, modeRun, press, clock>>

\* the command router handles one of the messages of the set msgs, while
\* fewer than max have been handled
Commands(msgs, max) ==
  \E m \in msgs :
    \E ub \in IF AtoiNull(m.topic, m.input) THEN AtoiNullOutcomes
               ELSE {"zero"} :
      /\ delivered < max
      /\ Deliver(m, ub)

\* the frames an engine is followed through: the fade up to table position
\* maxFade, Cycle and Rainbow for their first frames
WithinFrames(maxFade) ==
  /\ Mode = COLOUR /\ ~target_met => addr < maxFade
  /\ Mode = CYCLE => cnt < MaxCycle
  /\ Mode = RAINBOW => offset < MaxRainbow

\* loop() runs once, with any answers of the timers and any draws
Ticks(maxFade) ==
  \E be \in BOOLEAN, me \in BOOLEAN, rnd \in RandomDraws :
    /\ (~standby /\ me) => WithinFrames(maxFade)
    /\ (standby \/ ~me \/ Mode # TWINKLE) => rnd = NoDraw
    /\ Tick(be, me, rnd)

\* setup() and the fade it starts on their own: loop() without messages
BootNext == Ticks(TransitionSteps)

SpecBoot == Init /\ [][BootNext]_vars

\* the lamp at rest: the fade that starts at setup() has run to its end and
\* the brightness step has applied the initial brightness (a state SpecBoot
\* reaches after fifty iterations of loop() with the LED timer expired)
Idle ==
  /\ Mode = COLOUR
  /\ standby = FALSE
  /\ target_met = TRUE
  /\ brightness = 155
  /\ target_colour = Black
  /\ current_colour = Black
  /\ transition = ZeroTable
  /\ addr = 0
  /\ leds = AllOff
  /\ shown = AllOff
  /\ hwBrightness = 155
  /\ cnt = 0
  /\ offset = 0
  /\ last_brightness = 155
  /\ brightness_pulse = 153
  /\ coefficient = CoefficientOne
  /\ pulse_direction = FALSE
  /\ pulse_animation = FALSE
  /\ outbox = <<>>
  /\ lastCmd = [NoCmd EXCEPT !.op = "loop"]
  /\ delivered = 0
  /\ modeRun = NoRun(COLOUR, target_colour, brightness)
  /\ PressInit
  /\ ClockInit

\* the lamp under power, mode and brightness commands, from setup() or from
\* rest
Next ==
  \/ Commands(Messages, MaxMessages)
  \/ Ticks(MaxFade)

Spec == (Init \/ Idle) /\ [][Next]_vars

\* the router under every kind of message
RouterNext ==
  \/ Commands(RouterMessages, MaxRouted)
  \/ Ticks(MaxFade)

SpecRouter == (Init \/ Idle) /\ [][RouterNext]_vars

\* mode commands and colour commands, with values in and out of 0..255
ColourMessages ==
  { Message(MQTTModeInbox, PayloadTrue),
    Message(MQTTColorInbox, PayloadGreen200),
    Message(MQTTColorInbox, PayloadRed999),
    Message(MQTTColorInbox, PayloadBlue256) }

\* the lamp under mode and colour commands
ColourNext ==
  \/ Commands(ColourMessages, MaxMessages)
  \/ Ticks(MaxFade)

SpecColour == (Init \/ Idle) /\ [][ColourNext]_vars

\* the lamp as a fade from a Cycle colour begins: from setup(), three mode
\* commands to Cycle, two Cycle frames, then the mode command that lands on
\* Color and commits the target (a state Spec reaches)
FadeStart ==
  /\ Mode = COLOUR
  /\ standby = FALSE
  /\ target_met = FALSE
  /\ brightness = 155
  /\ target_colour = Black
  /\ current_colour = Wheel(1)
  /\ transition = setColourTransition(Wheel(1), Black)
  /\ addr = 0
  /\ leds = [p \in Pixels |-> Wheel(1)]
  /\ shown = leds
  /\ hwBrightness = 255
  /\ cnt = 2
  /\ offset = 0
  /\ last_brightness = 153
  /\ brightness_pulse = 153
  /\ coefficient = CoefficientOne
  /\ pulse_direction = FALSE
  /\ pulse_animation = FALSE
  /\ outbox = <<Publish(MQTTModeOutbox, "Color", -1)>>
  /\ lastCmd = [op |-> "callback", topic |-> MQTTModeInbox,
                input |-> PayloadTrue, fault |-> FALSE]
  /\ delivered = 4
  /\ modeRun = [NoRun(COLOUR, Black, 155) EXCEPT !.n = 4]
  /\ PressInit
  /\ ClockInit

\* a whole fade with no command in between: loop() only, from setup() or from
\* the start of the fade out of a Cycle colour
SpecFade == (Init \/ FadeStart) /\ [][BootNext]_vars

(***************************************************************************)
(* The fade under commands, with the LED timer firing for ever             *)
(***************************************************************************)
\* the commands that commit a target or switch the lamp off: power and
\* colour commands
LiveMessages ==
  { Message(MQTTPowerInbox, PayloadTrue),
    Message(MQTTPowerInbox, PayloadFalse),
    Message(MQTTColorInbox, PayloadGreen200) }

\* whole fades, with commands at any point of them
LiveNext ==
  \/ Commands(LiveMessages, MaxLive)
  \/ Ticks(TransitionSteps)

\* an iteration of loop() that finds the timer of the mode expired
LedTick ==
  \E be \in BOOLEAN :
    /\ ~standby => WithinFrames(TransitionSteps)
    /\ Tick(be, TRUE, NoDraw)

\* the Arduino core calls loop() for ever and the timer of the mode expires
\* every LED_UPDATE_TIMEOUT milliseconds: the iteration that runs the engine
\* of the mode is not put off for ever
SpecLive ==
  /\ FadeStart
  /\ [][LiveNext]_vars
  /\ WF_vars(LedTick)

(***************************************************************************)
(* The channel interpolator on its own: every pair of channel values       *)
(***************************************************************************)
\* current_colour and target_colour hold arbitrary channel values: over the
\* initial states each channel meets every pair (current, target)
InterpInit ==
  /\ \E a \in 0 .. ChannelMax, b \in 0 .. ChannelMax :
       /\ current_colour = <<a, b, ChannelMax - a>>
       /\ target_colour = <<b, a, ChannelMax - b>>
  /\ Mode = COLOUR
  /\ standby = FALSE
  /\ target_met = FALSE
  /\ brightness = 155
  /\ transition = ZeroTable
  /\ addr = 0
  /\ leds = AllOff
  /\ shown = AllOff
  /\ hwBrightness = 255
  /\ cnt = 0
  /\ offset = 0
  /\ last_brightness = 153
  /\ brightness_pulse = 153
  /\ coefficient = CoefficientOne
  /\ pulse_direction = FALSE
  /\ pulse_animation = FALSE
  /\ outbox = <<>>
  /\ lastCmd = NoCmd
  /\ delivered = 0
  /\ modeRun = NoRun(COLOUR, target_colour, brightness)
  /\ PressInit
  /\ ClockInit

\* the target is committed: setColourTarget() builds the table
Commit ==
  /\ lastCmd.op = "setup"
  /\ setColourTarget(target_colour[1], target_colour[2], target_colour[3])
  /\ lastCmd' = [NoCmd EXCEPT !.op = "setColourTarget"]
  /\ UNCHANGED <<Mode, standby, brightness, current_colour, addr, leds, shown,
                 cnt, offset, brightVars, pulse_animation, outbox, delivered,
                 modeRun, press, clock>>

InterpNext == Commit

SpecInterp == InterpInit /\ [][InterpNext]_vars

(***************************************************************************)
(* The same target committed again, and the fade replayed                  *)
(***************************************************************************)
\* the lamp at rest on a colour: current_colour and target_colour hold the
\* same value, one of 64 colours that differ on every channel
RecommitInit ==
  /\ \E a \in 0 .. 63 :
       /\ current_colour = <<4 * a + 3, ChannelMax - 4 * a, a>>
       /\ target_colour = current_colour
       /\ leds = [p \in Pixels |-> current_colour]
  /\ shown = leds
  /\ Mode = COLOUR
  /\ standby = FALSE
  /\ target_met = TRUE
  /\ brightness = 155
  /\ transition = ZeroTable
  /\ addr = 0
  /\ hwBrightness = 155
  /\ cnt = 0
  /\ offset = 0
  /\ last_brightness = 155
  /\ brightness_pulse = 153
  /\ coefficient = CoefficientOne
  /\ pulse_direction = FALSE
  /\ pulse_animation = FALSE
  /\ outbox = <<>>
  /\ lastCmd = NoCmd
  /\ delivered = 0
  /\ modeRun = NoRun(COLOUR, target_colour, brightness)
  /\ PressInit
  /\ ClockInit

\* the target is committed again with the value it has: the call
\* setColourTarget(target_colour[0], target_colour[1], target_colour[2]) of
\* setStandby() and setTheMode()
Recommit ==
  /\ delivered < MaxCommits
  /\ setColourTarget(target_colour[1], target_colour[2], target_colour[3])
  /\ lastCmd' = [NoCmd EXCEPT !.op = "setColourTarget"]
  /\ delivered' = delivered + 1
  /\ outbox' = <<>>
  /\ UNCHANGED <<Mode, standby, brightness, current_colour, addr, leds, shown,
                 cnt, offset, brightVars, pulse_animation, modeRun, press,
                 clock>>

\* an iteration of loop() in which the LED timer has expired and the
\* brightness timer has not
FadeTick == Tick(FALSE, TRUE, NoDraw)

RecommitNext ==
  \/ Recommit
  \/ FadeTick

SpecRecommit == RecommitInit /\ [][RecommitNext]_vars

(***************************************************************************)
(* Cycle mode on its own: the counter through its 256 values               *)
(***************************************************************************)
\* the lamp as it enters Cycle: from setup(), three mode commands (a state
\* Spec reaches)
CycleStart ==
  /\ Mode = CYCLE
  /\ standby = FALSE
  /\ target_met = FALSE
  /\ brightness = 155
  /\ target_colour = Black
  /\ current_colour = Black
  /\ transition = ZeroTable
  /\ addr = 0
  /\ leds = AllOff
  /\ shown = AllOff
  /\ hwBrightness = 255
  /\ cnt = 0
  /\ offset = 0
  /\ last_brightness = 153
  /\ brightness_pulse = 153
  /\ coefficient = CoefficientOne
  /\ pulse_direction = FALSE
  /\ pulse_animation = FALSE
  /\ outbox = <<Publish(MQTTModeOutbox, "Cycle", -1)>>
  /\ lastCmd = [op |-> "callback", topic |-> MQTTModeInbox,
                input |-> PayloadTrue, fault |-> FALSE]
  /\ delivered = 3
  /\ modeRun = [NoRun(COLOUR, Black, 155) EXCEPT !.n = 3]
  /\ PressInit
  /\ ClockInit

\* an iteration of loop() in which the timer of the mode has expired and the
\* brightness timer has not
ModeTick == Tick(FALSE, TRUE, NoDraw)

CycleNext == ModeTick

SpecCycle == CycleStart /\ [][CycleNext]_vars

\* the lamp from its entry into Cycle on, under mode commands: the modes are
\* left and entered again
ModeMessages == { Message(MQTTModeInbox, PayloadTrue) }

ReentryNext ==
  \/ Commands(ModeMessages, MaxReentry)
  \/ Ticks(MaxFade)

SpecReentry == CycleStart /\ [][ReentryNext]_vars

\* Rainbow and Cycle all the way round the wheel: from the entry into Cycle,
\* under mode commands and iterations of loop() that find the timer of the
\* mode expired. The first visit to Cycle is followed for its first frames
\* and the fade for its first entries; Rainbow is then followed through all
\* the values of its offset, and Cycle, entered again with the offset on its
\* first values, through all the values of its counter.
RoundNext ==
  \/ Commands(ModeMessages, MaxReentry)
  \/ /\ Mode = COLOUR /\ ~target_met => addr < MaxFade
     /\ Mode = RAINBOW => offset < MaxRainbow \/ cnt <= MaxCycle
     /\ Mode = CYCLE => cnt < MaxCycle \/ offset \in 1 .. MaxRainbow
     /\ ModeTick

SpecRound == CycleStart /\ [][RoundNext]_vars

(***************************************************************************)
(* Twinkle over the whole strip                                            *)
(***************************************************************************)
\* the lamp as Twinkle is entered: setup(), then one mode command (a state
\* Spec reaches)
TwinkleStart ==
  /\ Mode = TWINKLE
  /\ standby = FALSE
  /\ target_met = FALSE
  /\ brightness = 155
  /\ target_colour = Black
  /\ current_colour = Black
  /\ transition = ZeroTable
  /\ addr = 0
  /\ leds = AllOff
  /\ shown = AllOff
  /\ hwBrightness = 255
  /\ cnt = 0
  /\ offset = 0
  /\ last_brightness = 153
  /\ brightness_pulse = 153
  /\ coefficient = CoefficientOne
  /\ pulse_direction = FALSE
  /\ pulse_animation = FALSE
  /\ outbox = <<Publish(MQTTModeOutbox, "Twinkle", -1)>>
  /\ lastCmd = [op |-> "callback", topic |-> MQTTModeInbox,
                input |-> PayloadTrue, fault |-> FALSE]
  /\ delivered = 1
  /\ modeRun = [NoRun(COLOUR, Black, 155) EXCEPT !.n = 1]
  /\ PressInit
  /\ ClockInit

\* what random(30), random(PixelCount) and random(2) return, every pixel of
\* the strip included
StripDraws == [random30 : {0, 15, 29}, randomPix : Pixels, random2 : {0, 1}]

\* the pixels that are alight
Lit == { p \in Pixels : leds[p] # Black }

\* an iteration of loop() in Twinkle mode with the twinkle timer expired
TwinkleTick ==
  \E be \in BOOLEAN, rnd \in StripDraws :
    /\ Cardinality(Lit) < MaxLit
    /\ Tick(be, TRUE, rnd)

TwinkleNext == TwinkleTick

SpecTwinkle == TwinkleStart /\ [][TwinkleNext]_vars

(***************************************************************************)
(* Brightness commands and the brightness step, under fair scheduling      *)
(***************************************************************************)
\* power, mode and brightness commands, the brightness values in and out of
\* 0..255
BrightMessages ==
  { Message(MQTTPowerInbox, PayloadTrue),
    Message(MQTTPowerInbox, PayloadFalse),
    Message(MQTTModeInbox, PayloadTrue),
    Message(MQTTBrightnessInbox, PayloadValue200),
    Message(MQTTBrightnessInbox, PayloadValue999) }

\* loop() runs once and finds the brightness timer expired
BrightTicks ==
  \E me \in BOOLEAN, rnd \in RandomDraws :
    /\ (~standby /\ me) => WithinFrames(MaxFade)
    /\ (standby \/ ~me \/ Mode # TWINKLE) => rnd = NoDraw
    /\ Tick(TRUE, me, rnd)

BrightNext ==
  \/ Commands(BrightMessages, MaxBright)
  \/ BrightTicks

\* the Arduino core calls loop() for ever and the brightness timer expires
\* every BRIGHTNESS_UPDATE_TIMEOUT milliseconds: an iteration that runs
\* set_brightness() is not put off for ever
SpecBright ==
  /\ Init \/ Idle
  /\ [][BrightNext]_vars
  /\ WF_vars(Tick(TRUE, FALSE, NoDraw))

(***************************************************************************)
(* The press/hold pulse of the colour (src/LampNode/LampNode.ino)          *)
(***************************************************************************)
\* generatePulse(): the table from current to a fifth of current
generatePulse(current) ==
  [a \in PulseAddrs |->
     <<map(a, 0, 29, current[1], current[1] \div 5),
       map(a, 0, 29, current[2], current[2] \div 5),
       map(a, 0, 29, current[3], current[3] \div 5)>>]

\* pulseEffect() that turns the cursor only once it has passed the end
pulseEffectLate ==
  LET d1 == IF pulse_addr > 29 THEN FALSE ELSE cursor_direction
      d2 == IF pulse_addr <= 0 THEN TRUE ELSE d1
  IN  /\ setColour(pulse[pulse_addr][1], pulse[pulse_addr][2],
                   pulse[pulse_addr][3])
      /\ cursor_direction' = d2
      /\ pulse_addr' = IF d2 THEN pulse_addr + 1 ELSE pulse_addr - 1

pulseEffect ==
  LET d1 == IF pulse_addr >= 29 THEN FALSE ELSE cursor_direction
      d2 == IF pulse_addr <= 0 THEN TRUE ELSE d1
  IN  /\ setColour(pulse[pulse_addr][1], pulse[pulse_addr][2],
                   pulse[pulse_addr][3])
      /\ cursor_direction' = d2
      /\ pulse_addr' = IF d2 THEN pulse_addr + 1 ELSE pulse_addr - 1

\* callback on "Press"
Press ==
  /\ delivered < MaxPress
  /\ pulse_animation' = TRUE
  /\ pulse_addr' = 0
  /\ pulse' = generatePulse(current_colour)
  /\ lastCmd' = [NoCmd EXCEPT !.op = "Press"]
  /\ delivered' = delivered + 1
  /\ outbox' = <<>>
  /\ UNCHANGED <<Mode, standby, brightness, fadeVars, current_colour, addr,
                 leds, shown, cnt, offset, brightVars, cursor_direction,
                 modeRun, clock>>

\* callback on "Release": the flag is cleared and the target committed
\* again; with the transition INSTANT setColourTarget() of this variant shows
\* the target at once
Release(instant) ==
  /\ delivered < MaxPress
  /\ pulse_animation' = FALSE
  /\ target_met' = FALSE
  /\ target_colour' = target_colour
  /\ IF instant
       THEN setColour(target_colour[1], target_colour[2], target_colour[3])
       ELSE UNCHANGED <<current_colour, leds, shown>>
  /\ transition' = setColourTransition(current_colour', target_colour)
  /\ lastCmd' = [NoCmd EXCEPT !.op = "Release"]
  /\ delivered' = delivered + 1
  /\ outbox' = <<>>
  /\ UNCHANGED <<Mode, standby, brightness, addr, cnt, offset, brightVars,
                 press, modeRun, clock>>

\* an iteration of loop() with the LED timer expired: the pulse while the
\* flag is set, the fade otherwise (followed for its first entries)
PressTick ==
  /\ ~pulse_animation /\ ~target_met => addr < MaxFade
  /\ IF pulse_animation
       THEN pulseEffect /\ UNCHANGED <<target_met, addr>>
       ELSE fadeToColourTarget(shown) /\ UNCHANGED <<pulse_addr, cursor_direction>>
  /\ lastCmd' = [NoCmd EXCEPT !.op = "loop"]
  /\ outbox' = <<>>
  /\ UNCHANGED <<Mode, standby, brightness, target_colour, transition, cnt,
                 offset, brightVars, pulse_animation, pulse, delivered,
                 modeRun, clock>>

\* the colours the lamp rests on when the first command arrives
PressColours ==
  { <<255, 128, 7>>, <<5, 0, 254>>, <<100, 33, 4>>, <<0, 255, 64>> }

PressStart ==
  /\ current_colour \in PressColours
  /\ target_colour = current_colour
  /\ leds = [p \in Pixels |-> current_colour]
  /\ shown = leds
  /\ Mode = COLOUR
  /\ standby = FALSE
  /\ target_met = TRUE
  /\ brightness = 155
  /\ transition = ZeroTable
  /\ addr = 0
  /\ hwBrightness = 155
  /\ cnt = 0
  /\ offset = 0
  /\ last_brightness = 155
  /\ brightness_pulse = 153
  /\ coefficient = CoefficientOne
  /\ pulse_direction = FALSE
  /\ pulse_animation = FALSE
  /\ outbox = <<>>
  /\ lastCmd = NoCmd
  /\ delivered = 0
  /\ modeRun = NoRun(COLOUR, target_colour, brightness)
  /\ PressInit
  /\ ClockInit

PressNext ==
  \/ Press
  \/ \E instant \in BOOLEAN : Release(instant)
  \/ PressTick

SpecPress == PressStart /\ [][PressNext]_vars

(***************************************************************************)
(* The timers of loop() against the millisecond clock                      *)
(***************************************************************************)
\* the timer loop() tests in mode m, and the period of each timer
TimerOf(m) ==
  CASE m = COLOUR -> "ledTimer"
    [] m = TWINKLE -> "twinkleTimer"
    [] m = RAINBOW -> "rainbowTimer"
    [] m = CYCLE -> "cycleTimer"

Timeout(t) ==
  CASE t = "ledTimer" -> LED_UPDATE_TIMEOUT
    [] t = "twinkleTimer" -> TWINKLE_UPDATE_TIMEOUT
    [] t = "rainbowTimer" -> RAINBOW_UPDATE_TIMEOUT
    [] t = "cycleTimer" -> CYCLE_UPDATE_TIMEOUT
    [] t = "brightnessTimer" -> BRIGHTNESS_UPDATE_TIMEOUT

\* the milliseconds between two iterations of loop()
Delays == {10, 19}

\* one iteration of loop() on the clock: dt milliseconds after the last
\* reading of millis() the brightness timer is tested and, if expired, set;
\* skew milliseconds later (the time set_brightness() takes) the timer of the
\* mode is tested and, if expired, set. Each unit of work runs as its timer
\* says.
TimedTick(dt, skew) ==
  LET t1 == Add32(runTime, dt)
      t2 == Add32(t1, skew)
      B == "brightnessTimer"
      T == TimerOf(Mode)
      be == timerExpired(t1, timers[B], Timeout(B))
      me == timerExpired(t2, timers[T], Timeout(T))
      passed == dt + skew
  IN  /\ elapsed.total + passed <= MaxTime
      /\ skew > 0 => ~standby /\ be
      /\ loop(be, me, NoDraw)
      /\ lastCmd' = [NoCmd EXCEPT !.op = "loop"]
      /\ runTime' = t2
      /\ timers' =
           IF standby THEN timers
           ELSE [t \in TimerNames |->
                   IF t = B /\ be THEN t1
                   ELSE IF t = T /\ me THEN t2
                   ELSE timers[t]]
      /\ elapsed' =
           [t \in TimerNames \cup {"total"} |->
              IF ~standby /\ t = B /\ be THEN skew
              ELSE IF ~standby /\ t = T /\ me THEN 0
              ELSE elapsed[t] + passed]
      /\ UNCHANGED <<delivered, modeRun, press>>

\* the lamp at rest in Color mode half a minute of milliseconds before the
\* clock wraps: the LED and brightness timers have just been set, the
\* timers of the other modes a second ago
LateStart ==
  /\ Mode = COLOUR
  /\ standby = FALSE
  /\ target_met = TRUE
  /\ brightness = 155
  /\ target_colour = Black
  /\ current_colour = Black
  /\ transition = ZeroTable
  /\ addr = 0
  /\ leds = AllOff
  /\ shown = AllOff
  /\ hwBrightness = 155
  /\ cnt = 0
  /\ offset = 0
  /\ last_brightness = 155
  /\ brightness_pulse = 153
  /\ coefficient = CoefficientOne
  /\ pulse_direction = FALSE
  /\ pulse_animation = FALSE
  /\ outbox = <<>>
  /\ lastCmd = [NoCmd EXCEPT !.op = "loop"]
  /\ delivered = 0
  /\ modeRun = NoRun(COLOUR, target_colour, brightness)
  /\ PressInit
  /\ runTime = <<Half - 1, Half - 30>>
  /\ timers = [t \in TimerNames |->
                 IF t \in {"brightnessTimer", "ledTimer"} THEN runTime
                 ELSE Sub32(runTime, <<0, 1000>>)]
  /\ elapsed = [t \in TimerNames \cup {"total"} |->
                  IF t \in {"brightnessTimer", "ledTimer", "total"} THEN 0
                  ELSE 1000]

TimedNext ==
  \/ Commands(ModeMessages, MaxTimed)
  \/ \E dt \in Delays, skew \in {0, 1} : TimedTick(dt, skew)

SpecTimers == (Init \/ LateStart) /\ [][TimedNext]_vars

(***************************************************************************)
(* The brightness step on its own, with the pulse flag as an input         *)
(***************************************************************************)
\* the Press and Release commands set and clear pulse_animation
SetPulse(flag) ==
  /\ flag # pulse_animation
  /\ pulse_animation' = flag
  /\ outbox' = <<>>
  /\ lastCmd' = [NoCmd EXCEPT !.op = "pulse"]
  /\ UNCHANGED <<Mode, standby, brightness, fadeVars, current_colour, addr,
                 leds, shown, cnt, offset, brightVars, delivered, modeRun,
                 press, clock>>

\* an iteration of loop() in which the brightness timer has expired and the
\* timer of the mode has not
BrightnessTick == Tick(TRUE, FALSE, NoDraw)

PulseNext ==
  \/ \E flag \in BOOLEAN : SetPulse(flag)
  \/ BrightnessTick

SpecPulse == Init /\ [][PulseNext]_vars

(***************************************************************************)
(* Properties                                                              *)
(***************************************************************************)
\* the step handled message (topic, input) without restarting the device
Handled(cmd, topic, input) ==
  /\ cmd.op = "callback"
  /\ cmd.topic = topic
  /\ cmd.input = input
  /\ ~cmd.fault

HandledTopic(cmd, topic) ==
  /\ cmd.op = "callback"
  /\ cmd.topic = topic
  /\ ~cmd.fault

Committed == lastCmd.op = "setColourTarget"

\* C1: for every current and target colour with channels in 0..255, entry 0
\* of the table setColourTransition builds is the current colour and entry 49
\* is the target colour, on every channel.
C1_TableEnds ==
  Committed =>
    \A i \in Channels :
      /\ transition[0][i] = current_colour[i]
      /\ transition[TransitionSteps - 1][i] = target_colour[i]

\* C1 witness: a table built for a colour that has to fall on one channel
\* and to rise on another.
C1_Witness ==
  /\ Committed
  /\ current_colour[1] = 255 /\ target_colour[1] = 0
  /\ current_colour[2] = 0 /\ target_colour[2] = 255

\* C2 as stated: every entry is current + floor((target - current) * i / 49),
\* the quotient rounded toward minus infinity also when target < current.
C2_FloorDivision ==
  Committed =>
    \A a \in Addrs, i \in Channels :
      transition[a][i] =
        current_colour[i]
          + ((target_colour[i] - current_colour[i]) * a)
              \div (TransitionSteps - 1)

\* C2 amended: the quotient (target - current) * i / 49 is truncated toward
\* zero: entry i is current + floor((target - current) * i / 49) when
\* target >= current and current - floor((current - target) * i / 49) when
\* target < current; from 0 to 255 step 24 is 124.
C2_TruncatedDivision ==
  Committed =>
    \A a \in Addrs, i \in Channels :
      LET c == current_colour[i]
          t == target_colour[i]
      IN  /\ t >= c =>
               transition[a][i] = c + ((t - c) * a) \div (TransitionSteps - 1)
          /\ t < c =>
               transition[a][i] = c - ((c - t) * a) \div (TransitionSteps - 1)
          /\ (c = 0 /\ t = 255 /\ a = 24) => transition[a][i] = 124

\* C2 witness: a falling channel whose step 1 differs between the two
\* roundings (255 to 0: 250 truncated, 249 floored), next to the rising
\* example 0 to 255 with 124 at step 24.
C2_Witness ==
  /\ Committed
  /\ current_colour[1] = 255 /\ target_colour[1] = 0
  /\ transition[1][1] = 250
  /\ current_colour[2] = 0 /\ target_colour[2] = 255
  /\ transition[24][2] = 124

\* the field name and the number of a payload {"<name>": <number>}
FieldName(input) == TokenText(input, strtokFirst(input))
FieldValue(input) ==
  atoi(TokenText(input, strtokNext(input, strtokFirst(input))))
HasField(input) ==
  /\ strtokFirst(input).first # 0
  /\ strtokNext(input, strtokFirst(input)).first # 0

ChannelNames == <<<<"r", "e", "d">>, <<"g", "r", "e", "e", "n">>,
                  <<"b", "l", "u", "e">>>>

InRange(v) == v >= 0 /\ v <= ChannelMax

\* C3: a color command naming one channel with a value v in 0..255 sets that
\* channel of target_colour to v, leaves the other two, and recomputes the
\* fade (target_met false, table rebuilt from current_colour to the new
\* target).
C3_ColorSetsChannel ==
  [][\A ch \in Channels :
       ( /\ HandledTopic(lastCmd', MQTTColorInbox)
         /\ HasField(lastCmd'.input)
         /\ FieldName(lastCmd'.input) = ChannelNames[ch]
         /\ InRange(FieldValue(lastCmd'.input)) )
       => /\ target_colour' =
               [target_colour EXCEPT ![ch] = FieldValue(lastCmd'.input)]
          /\ target_met' = FALSE
          /\ transition' = setColourTransition(current_colour, target_colour')
    ]_vars

\* C4: a brightness command whose number is outside 0..255 is rejected:
\* brightness keeps its value and nothing is published; brightness is in
\* 0..255 after every command.
C4_BrightnessRejected ==
  [][HandledTopic(lastCmd', MQTTBrightnessInbox)
       => /\ ( HasField(lastCmd'.input)
               /\ ~InRange(FieldValue(lastCmd'.input)) )
             => (brightness' = brightness /\ outbox' = <<>>)
          /\ InRange(brightness')
    ]_vars

\* C5: Mode is always one of the four modes; each mode command moves it one
\* place on in the order Color, Twinkle, Rainbow, Cycle, Color, so after n
\* consecutive mode commands it is n places on from where the run started,
\* and after four it is back where it started, in standby or not.
C5_ModeCycle ==
  /\ Mode \in {COLOUR, TWINKLE, RAINBOW, CYCLE}
  /\ <<COLOUR, TWINKLE, RAINBOW, CYCLE>>[
       ((modeRun.start + modeRun.n) % ModeCount) + 1] = Mode
  /\ modeRun.n = ModeCount => Mode = modeRun.start

\* C5 witness: four mode commands in a row handled while the lamp is in
\* standby, Mode back at the mode the run started from.
C5_Witness ==
  /\ modeRun.n = ModeCount
  /\ Mode = modeRun.start
  /\ standby

\* C6: whenever standby is true the frame last pushed to the strip is all
\* off.
C6_StandbyDark == standby => shown = AllOff

\* C6 witness: the lamp was showing a colour, was switched off, then took a
\* mode command and a loop iteration in standby.
C6_Witness ==
  /\ standby
  /\ Mode = COLOUR
  /\ cnt > 0
  /\ lastCmd.op = "loop"

\* C7: a power command (off or on) changes none of target_colour, brightness
\* and Mode, so power-off followed by power-on leaves the three as they were.
C7_PowerKeepsSettings ==
  [][HandledTopic(lastCmd', MQTTPowerInbox)
       => /\ target_colour' = target_colour
          /\ brightness' = brightness
          /\ Mode' = Mode
    ]_vars

\* C7 witness: power-on has just been handled after a power-off: the strip
\* is still dark although the lamp is on and its colour is not black, with a
\* brightness and a mode that were commanded before.
C7_Witness ==
  /\ Handled(lastCmd, MQTTPowerInbox, PayloadTrue)
  /\ ~standby
  /\ shown = AllOff
  /\ current_colour # Black
  /\ Mode = CYCLE

\* C8: power with payload true sets standby false, rebuilds the table from
\* current_colour to target_colour with target_met false and publishes one
\* power notification true; payload false sets standby true and publishes
\* one notification false; a payload with neither changes nothing and
\* publishes nothing.
C8_PowerCommand ==
  [][ /\ Handled(lastCmd', MQTTPowerInbox, PayloadTrue)
         => /\ standby' = FALSE
            /\ target_met' = FALSE
            /\ transition' = setColourTransition(current_colour, target_colour)
            /\ outbox' = <<Publish(MQTTPowerOutbox, "true", -1)>>
      /\ Handled(lastCmd', MQTTPowerInbox, PayloadFalse)
         => /\ standby' = TRUE
            /\ outbox' = <<Publish(MQTTPowerOutbox, "false", -1)>>
      /\ Handled(lastCmd', MQTTPowerInbox, PayloadValue200)
         => /\ UNCHANGED lamp
            /\ outbox' = <<>>
    ]_vars

\* C8 witness: power-on handled with a colour to fade from: the table now
\* leads from that colour to the target, and one notification true is out.
C8_Witness ==
  /\ Handled(lastCmd, MQTTPowerInbox, PayloadTrue)
  /\ current_colour # target_colour
  /\ transition[0] = current_colour
  /\ transition # ZeroTable
  /\ outbox = <<Publish(MQTTPowerOutbox, "true", -1)>>

\* the step called setColourTarget(): power-on, or a mode command that
\* lands on Color while the lamp is on
CalledSetColourTarget ==
  \/ Handled(lastCmd', MQTTPowerInbox, PayloadTrue)
  \/ HandledTopic(lastCmd', MQTTModeInbox) /\ Mode' = COLOUR /\ ~standby

\* C9: every call of setColourTarget resets the fade cursor to 0, together
\* with target_met false and a rebuilt table.
C9_CursorReset ==
  [][CalledSetColourTarget
       => /\ addr' = 0
          /\ target_met' = FALSE
          /\ transition' = setColourTransition(current_colour', target_colour')
    ]_vars

\* C10 as stated: a mode command that lands on Color rebuilds the table from
\* current_colour to target_colour and sets target_met false, in standby
\* too.
C10_ColourRebuildsAlways ==
  [][(HandledTopic(lastCmd', MQTTModeInbox) /\ Mode' = COLOUR)
       => /\ target_met' = FALSE
          /\ transition' = setColourTransition(current_colour, target_colour)
    ]_vars

\* C10 amended: a mode command that lands on Color while standby is false
\* rebuilds the table from current_colour to target_colour and sets
\* target_met false; while standby is true it leaves the table, target_met
\* and target_colour as they are.
C10_ColourRebuildsWhenOn ==
  [][(HandledTopic(lastCmd', MQTTModeInbox) /\ Mode' = COLOUR)
       => IF ~standby
            THEN /\ target_met' = FALSE
                 /\ transition' =
                      setColourTransition(current_colour, target_colour)
            ELSE UNCHANGED fadeVars
    ]_vars

\* C10 witness: a mode command has just landed on Color with the lamp on and
\* a Cycle colour showing: the table leads from that colour to the target.
C10_Witness ==
  /\ HandledTopic(lastCmd, MQTTModeInbox)
  /\ Mode = COLOUR
  /\ ~standby
  /\ current_colour # target_colour
  /\ transition[0] = current_colour
  /\ transition[TransitionSteps - 1] = target_colour

\* C11: a mode command never changes target_colour or brightness: after
\* every command of a run of mode commands both have the values they had
\* before the run, and so they do when the run has gone through the four
\* modes and is back on Color.
C11_ModeKeepsTarget ==
  /\ modeRun.n > 0 =>
       /\ target_colour = modeRun.target
       /\ brightness = modeRun.brightness
  /\ (modeRun.n = ModeCount /\ Mode = COLOUR) =>
       target_colour = modeRun.target

\* C11 witness: a brightness was commanded, then four mode commands took
\* the lamp from Color through Twinkle, Rainbow and Cycle back to Color.
C11_Witness ==
  /\ modeRun.n = ModeCount
  /\ modeRun.start = COLOUR
  /\ Mode = COLOUR
  /\ brightness = 200
  /\ target_colour = modeRun.target

\* the external names of the modes, in the order of enum Modes
ExternalNames == <<"Color", "Twinkle", "Rainbow", "Cycle">>

\* C12: every mode command, in standby or not, publishes exactly one mode
\* notification, and it carries the external name of the mode the lamp is in
\* after the command (Color, Twinkle, Rainbow, Cycle).
C12_ModeNotification ==
  [][HandledTopic(lastCmd', MQTTModeInbox)
       => /\ Len(outbox') = 1
          /\ outbox'[1] = Publish(MQTTModeOutbox, ExternalNames[Mode' + 1], -1)
    ]_vars

\* C12 witness: a mode command handled in standby has published the name of
\* the mode it moved the lamp to.
C12_Witness ==
  /\ HandledTopic(lastCmd, MQTTModeInbox)
  /\ standby
  /\ Mode = RAINBOW
  /\ outbox = <<Publish(MQTTModeOutbox, "Rainbow", -1)>>

\* the coefficient is between 0.5 and 1.0
CoefficientInRange ==
  /\ CoefficientHalf <= coefficient
  /\ coefficient <= CoefficientOne

\* a brightness step: while pulsing, the direction after the step is
\* descending if the coefficient was 1.0, ascending if it was 0.5, and
\* otherwise what it was; while not pulsing the coefficient rises by one step
\* of 0.025 (to the nearest float) until it is 1.0 and then stays
PulseStep ==
  lastCmd'.op = "loop" =>
    IF pulse_animation
      THEN /\ coefficient = CoefficientOne => pulse_direction' = FALSE
           /\ coefficient = CoefficientHalf => pulse_direction' = TRUE
           /\ coefficient \notin {CoefficientOne, CoefficientHalf}
                => pulse_direction' = pulse_direction
      ELSE IF coefficient < CoefficientOne
        THEN /\ Abs(coefficient' - coefficient - StepFloor) <= 4
             /\ coefficient' <= CoefficientOne
        ELSE coefficient' = coefficient

InRangeBrightness ==
  { [input |-> PayloadValue0, v |-> 0],
    [input |-> PayloadValue200, v |-> 200],
    [input |-> PayloadValue255, v |-> 255] }

\* C13: a brightness command with a value v in 0..255 sets brightness to v,
\* changes no other lamp state (Mode, standby, target_colour,
\* current_colour, target_met, the table, the strip) and publishes exactly
\* one brightness confirmation, which carries v.
C13_BrightnessCommand ==
  [][\A p \in InRangeBrightness :
       Handled(lastCmd', MQTTBrightnessInbox, p.input)
       => /\ brightness' = p.v
          /\ UNCHANGED <<Mode, standby, target_colour, current_colour,
                         target_met, transition, addr, leds, shown, cnt,
                         offset, brightVars, pulse_animation>>
          /\ outbox' = <<Publish(MQTTBrightnessOutbox, "", p.v)>>
    ]_vars

\* C13 witness: brightness 255 has just been commanded while the lamp was in
\* standby and one confirmation carrying 255 is out.
C13_Witness ==
  /\ Handled(lastCmd, MQTTBrightnessInbox, PayloadValue255)
  /\ standby
  /\ brightness = 255
  /\ outbox = <<Publish(MQTTBrightnessOutbox, "", 255)>>

\* C14: every colour command that names a channel with a value in 0..255,
\* a command the lamp is to apply, publishes a confirmation on the colour
\* topic that carries the value.
C14_ColourConfirmation ==
  [][\A ch \in Channels :
       ( /\ HandledTopic(lastCmd', MQTTColorInbox)
         /\ HasField(lastCmd'.input)
         /\ FieldName(lastCmd'.input) = ChannelNames[ch]
         /\ InRange(FieldValue(lastCmd'.input)) )
       => /\ Len(outbox') = 1
          /\ outbox'[1].topic = MQTTColorOutbox
          /\ outbox'[1].num = FieldValue(lastCmd'.input)
    ]_vars

\* the payload has a second token and it starts, after white space, with a
\* digit
NumericField(input) ==
  /\ HasField(input)
  /\ LET t == TokenText(input, strtokNext(input, strtokFirst(input)))
         k == SkipSpace(t, 1)
     IN  k <= Len(t) /\ IsDigit(t[k])

\* C15: a brightness command whose payload has no numeric field (the value
\* is not a number, or is missing) is dropped: the lamp state, brightness
\* included, stays as it is and nothing is published.
C15_MalformedDropped ==
  [][( /\ lastCmd'.op = "callback"
       /\ lastCmd'.topic = MQTTBrightnessInbox
       /\ ~NumericField(lastCmd'.input) )
       => /\ UNCHANGED lamp
          /\ outbox' = <<>>
    ]_vars

\* the five inbox topics and the outbox topic of each command class
InboxTopics ==
  {MQTTDeviceInfoInbox, MQTTPowerInbox, MQTTModeInbox, MQTTColorInbox,
   MQTTBrightnessInbox}

OutboxOf(topic) ==
  CASE topic = MQTTDeviceInfoInbox -> MQTTDeviceInfoOutbox
    [] topic = MQTTPowerInbox -> MQTTPowerOutbox
    [] topic = MQTTModeInbox -> MQTTModeOutbox
    [] topic = MQTTColorInbox -> MQTTColorOutbox
    [] topic = MQTTBrightnessInbox -> MQTTBrightnessOutbox

\* C16: a message on a topic that is none of the five inbox topics leaves
\* every lamp variable unchanged and publishes nothing; a message on an inbox
\* topic runs the one command class of that topic: it publishes at most once
\* and only on the outbox topic of its class, and it leaves alone what
\* belongs to the other classes (a query changes nothing, power leaves Mode
\* and brightness, mode leaves standby and brightness, colour and brightness
\* leave Mode and standby).
C16_RouterDispatch ==
  [][lastCmd'.op = "callback" =>
       IF lastCmd'.topic \notin InboxTopics
         THEN UNCHANGED lamp /\ outbox' = <<>>
         ELSE /\ Len(outbox') <= 1
              /\ \A k \in 1 .. Len(outbox') :
                   outbox'[k].topic = OutboxOf(lastCmd'.topic)
              /\ lastCmd'.topic = MQTTDeviceInfoInbox => UNCHANGED lamp
              /\ lastCmd'.topic = MQTTPowerInbox
                   => UNCHANGED <<Mode, brightness>>
              /\ lastCmd'.topic = MQTTModeInbox
                   => UNCHANGED <<standby, brightness>>
              /\ (lastCmd'.topic = MQTTColorInbox /\ ~lastCmd'.fault)
                   => UNCHANGED <<Mode, standby, brightness>>
              /\ (lastCmd'.topic = MQTTBrightnessInbox /\ ~lastCmd'.fault)
                   => UNCHANGED <<Mode, standby, fadeVars>>
    ]_vars

\* C16 witness: a message on an unknown topic has been handled by a lamp in
\* standby, and nothing is out.
C16_Witness ==
  /\ Handled(lastCmd, OtherTopic, PayloadTrue)
  /\ standby
  /\ outbox = <<>>

\* C17: the reply to a device-info query is one snapshot of the lamp as it
\* is at the query: its mode name is the name of Mode, its power value is
\* not standby, its red, green and blue are current_colour and its
\* brightness is brightness; the query changes no lamp state.
C17_SnapshotIsState ==
  [][HandledTopic(lastCmd', MQTTDeviceInfoInbox)
       => /\ outbox' = <<Publish(MQTTDeviceInfoOutbox, "MQTTDeviceInfo", -1)>>
          /\ MQTTDeviceInfo.mode = ExternalNames[Mode + 1]
          /\ MQTTDeviceInfo.power = ~standby
          /\ <<MQTTDeviceInfo.red, MQTTDeviceInfo.green, MQTTDeviceInfo.blue>>
               = current_colour
          /\ MQTTDeviceInfo.brightness = brightness
          /\ UNCHANGED lamp
    ]_vars

\* every channel of target_colour, of current_colour and of every entry of
\* the table is in 0..255
ChannelsInRange ==
  \A i \in Channels :
    /\ InRange(target_colour[i])
    /\ InRange(current_colour[i])
    /\ \A a \in Addrs : InRange(transition[a][i])

\* a colour command that names a channel with a value outside 0..255 leaves
\* target_colour as it was
OutOfRangeRejected ==
  \A ch \in Channels :
    ( /\ HandledTopic(lastCmd', MQTTColorInbox)
      /\ HasField(lastCmd'.input)
      /\ FieldName(lastCmd'.input) = ChannelNames[ch]
      /\ ~InRange(FieldValue(lastCmd'.input)) )
    => target_colour' = target_colour

FadeOrder ==
  /\ (~target_met /\ addr > 0) => current_colour = transition[addr - 1]
  /\ addr \in Addrs
  /\ target_met =>
       /\ addr = 0
       /\ current_colour = transition[TransitionSteps - 1]

\* an iteration of loop() in Color mode: while target_met is false it either
\* leaves the fade alone (LED timer not expired) or applies the entry at the
\* cursor to current_colour and to the strip and moves the cursor on by one,
\* the tick at entry 49 setting target_met and the cursor back to 0; while
\* target_met is true it changes neither the colour, the strip nor the cursor
FadeStep ==
  (lastCmd'.op = "loop" /\ Mode = COLOUR /\ ~standby) =>
    IF target_met
      THEN UNCHANGED <<current_colour, leds, shown, addr, target_met>>
      ELSE \/ UNCHANGED <<current_colour, leds, shown, addr, target_met>>
           \/ /\ current_colour' = transition[addr]
              /\ shown' = [p \in Pixels |-> transition[addr]]
              /\ addr' = IF addr = TransitionSteps - 1 THEN 0 ELSE addr + 1
              /\ target_met' = (addr = TransitionSteps - 1)

\* C19: the fade in Color mode, from cursor 0 with target_met false and no
\* command in between: fifty fade ticks apply entries 0, 1, ..., 49 of the
\* table in that order, the cursor moving on by one per tick; the fiftieth
\* sets target_met true and the cursor back to 0; while target_met is true a
\* fade tick changes neither current_colour, the strip nor the cursor.
C19_FadeMachine ==
  /\ []FadeOrder
  /\ [][FadeStep]_vars

\* C19 witness: the fade from a Cycle colour down to black has run through
\* its fifty entries: target_met is true, the cursor is back at 0 and the
\* colour is the last entry, the target.
C19_Witness ==
  /\ target_met
  /\ addr = 0
  /\ transition[0] = Wheel(1)
  /\ transition[0] # Black
  /\ current_colour = transition[TransitionSteps - 1]
  /\ current_colour = target_colour
  /\ shown = AllOff

\* every entry of the table is the colour c
FlatTable(table, c) == \A a \in Addrs : table[a] = c

\* a step of the lamp whose target is committed with the value it has
SameTargetStep ==
  /\ lastCmd'.op = "setColourTarget" =>
       /\ target_colour' = target_colour
       /\ current_colour = target_colour => FlatTable(transition', target_colour)
  /\ (lastCmd.op = "setColourTarget" /\ lastCmd'.op = "setColourTarget")
       => transition' = transition
  /\ (lastCmd'.op = "loop" /\ FlatTable(transition, current_colour))
       => /\ current_colour' = current_colour
          /\ shown' = shown

\* C21: when the target is committed again with the same value while
\* current_colour equals it, each of the 50 entries of the table is
\* target_colour, so the fade that follows changes neither current_colour nor
\* the colour the strip shows; committing the same target twice in a row
\* gives the table that committing it once gives.
C21_RecommitIdempotent == [][SameTargetStep]_vars

\* C21 witness: the same colour, not black, was committed, part of the fade
\* was replayed, and it has just been committed a second time: the table is
\* flat and the colour and the strip are what they were.
C21_Witness ==
  /\ lastCmd.op = "setColourTarget"
  /\ delivered = 2
  /\ addr > 0
  /\ current_colour = <<43, 215, 10>>
  /\ FlatTable(transition, <<43, 215, 10>>)
  /\ shown = [p \in Pixels |-> <<43, 215, 10>>]

\* the input of the Wheel() call of the Cycle frame that was shown last
LastWheelInput == (cnt + 255) % 256

\* a Cycle frame has been shown
CycleFrameShown == Mode = CYCLE /\ lastCmd.op = "loop"

\* C22 as stated: three 85-wide linear segments taken in input order red to
\* blue (0..85), blue to green (85..170), green to red (170..255), each
\* moving channel changing by 3 per unit, input 0 pure red, every channel in
\* 0..255.
C22_WheelRedBlueGreen ==
  CycleFrameShown =>
    LET x == LastWheelInput
    IN  /\ x <= 85 => current_colour = <<255 - 3 * x, 0, 3 * x>>
        /\ (85 <= x /\ x <= 170)
             => current_colour = <<0, 3 * (x - 85), 255 - 3 * (x - 85)>>
        /\ 170 <= x
             => current_colour = <<3 * (x - 170), 255 - 3 * (x - 170), 0>>
        /\ \A i \in Channels : InRange(current_colour[i])

\* C22 amended: three 85-wide linear segments taken in input order red to
\* green (0..85), green to blue (85..170), blue to red (170..255), with
\* breakpoints at 0, 85, 170 and 255, each moving channel changing by 3 per
\* unit of input; input 0 is pure red and every channel is in 0..255.
C22_WheelRedGreenBlue ==
  CycleFrameShown =>
    LET x == LastWheelInput
    IN  /\ x <= 85 => current_colour = <<255 - 3 * x, 3 * x, 0>>
        /\ (85 <= x /\ x <= 170)
             => current_colour = <<0, 255 - 3 * (x - 85), 3 * (x - 85)>>
        /\ 170 <= x
             => current_colour = <<3 * (x - 170), 0, 255 - 3 * (x - 170)>>
        /\ x = 0 => current_colour = <<255, 0, 0>>
        /\ \A i \in Channels : InRange(current_colour[i])

\* C22 witness: the Cycle frame for input 85, the breakpoint between the
\* first and the second segment, is pure green.
C22_Witness ==
  /\ CycleFrameShown
  /\ LastWheelInput = 85
  /\ current_colour = <<0, 255, 0>>

\* C23: every mode command that enters Rainbow or Cycle resets the motion
\* state of that mode: the Rainbow offset is 0 on entry to Rainbow and the
\* Cycle counter is 0 on entry to Cycle, whatever ticks ran in earlier
\* visits, so the first frame after the entry is always the same.
C23_MotionReset ==
  [][HandledTopic(lastCmd', MQTTModeInbox)
       => /\ Mode' = RAINBOW => offset' = 0
          /\ Mode' = CYCLE => cnt' = 0
    ]_vars

\* the step is an iteration of loop()
LoopStep == lastCmd'.op = "loop"

\* the frame the engine of the current mode renders from the state it finds
\* (Twinkle renders no whole frame)
OwnFrame ==
  IF Mode = COLOUR THEN applyColour(transition[addr][1], transition[addr][2],
                                    transition[addr][3])
  ELSE IF Mode = RAINBOW
    THEN [i \in Pixels |-> Wheel(i * (256 \div PixelCount) + offset)]
  ELSE applyColour(Wheel(cnt)[1], Wheel(cnt)[2], Wheel(cnt)[3])

\* the pixels the step changes
ChangedPixels == { p \in Pixels : leds'[p] # leds[p] }

\* y is x or the successor of x modulo n
AtMostOneOn(x, y, n) == y = x \/ y = (x + 1) % n

\* C24: in an iteration of loop() at most one animation engine runs, the one
\* of the current Mode, for at most one frame: the fade cursor, the Rainbow
\* offset and the Cycle counter move only in their own mode and by at most
\* one, the frame is left alone or is the one frame of the engine of Mode
\* (one pixel at most in Twinkle); in standby the iteration changes nothing of
\* the lamp, the brightness step included.
C24_OneEngine ==
  [][LoopStep =>
       IF standby
         THEN UNCHANGED lamp
         ELSE /\ Mode # COLOUR => UNCHANGED <<addr, target_met>>
              /\ Mode # RAINBOW => offset' = offset
              /\ Mode # CYCLE => cnt' = cnt
              /\ Mode # TWINKLE => leds' = leds \/ leds' = OwnFrame
              /\ Mode = TWINKLE => Cardinality(ChangedPixels) <= 1
              /\ AtMostOneOn(addr, addr', TransitionSteps)
              /\ AtMostOneOn(offset, offset', 256)
              /\ AtMostOneOn(cnt, cnt', 256)
    ]_vars

\* an iteration of loop() has run the Rainbow engine for its first frame, the
\* Cycle counter at rest
C24_Witness ==
  /\ lastCmd.op = "loop"
  /\ Mode = RAINBOW
  /\ ~standby
  /\ offset = 1
  /\ cnt = 0
  /\ leds = [i \in Pixels |-> Wheel(i * (256 \div PixelCount))]

\* the effect of one tick on the two wheel counters and on the frame; every
\* iteration of loop() in SpecRound finds the timer of the mode expired
WheelTick ==
  LoopStep /\ ~standby =>
    /\ Mode = RAINBOW =>
         /\ offset' = (offset + 1) % 256
         /\ cnt' = cnt
         /\ \A i \in Pixels :
              leds'[i] = Wheel((i * 16 + offset) % 256) /\ shown'[i] = leds'[i]
    /\ Mode = CYCLE =>
         /\ cnt' = (cnt + 1) % 256
         /\ offset' = offset
         /\ \A i \in Pixels : leds'[i] = Wheel(cnt) /\ shown'[i] = leds'[i]
    /\ Mode \notin {RAINBOW, CYCLE} => UNCHANGED <<cnt, offset>>

\* C25: the Rainbow offset and the Cycle counter are in 0..255 between ticks;
\* a tick of Rainbow advances the offset by 1 modulo 256 and shows at pixel i
\* the wheel colour of (i * 16 + offset) mod 256, a tick of Cycle advances
\* the counter by 1 modulo 256 and shows the wheel colour of the counter on
\* every pixel; a tick of another mode changes neither of them.
C25_WheelCounters ==
  /\ [](offset \in 0 .. 255 /\ cnt \in 0 .. 255)
  /\ [][WheelTick]_vars

\* the 256th Rainbow tick has brought the offset back to 0, the Cycle counter
\* still at the value it had when Cycle was left
C25_Witness ==
  /\ lastCmd.op = "loop"
  /\ Mode = RAINBOW
  /\ offset = 0
  /\ cnt = 1
  /\ leds = [i \in Pixels |-> Wheel((i * 16 + 255) % 256)]

\* the colours Wheel() returns
WheelColours == { Wheel(w) : w \in 0 .. 255 }

\* C26: a Twinkle tick changes at most one pixel of the frame, a pixel of
\* the strip that it sets to a wheel colour or to off, and leaves every other
\* pixel and target_colour, current_colour, brightness, Mode, standby and
\* target_met as they were.
C26_TwinkleOnePixel ==
  [][LoopStep /\ Mode = TWINKLE /\ ~standby =>
       /\ DOMAIN leds' = Pixels
       /\ Cardinality(ChangedPixels) <= 1
       /\ \A p \in ChangedPixels : leds'[p] \in WheelColours \cup {Black}
       /\ UNCHANGED <<target_colour, current_colour, brightness, Mode,
                      standby, target_met>>
    ]_vars

\* a Twinkle tick has lit pixel 5 next to pixel 11, which an earlier tick lit
C26_Witness ==
  /\ lastCmd.op = "loop"
  /\ Mode = TWINKLE
  /\ Lit = {5, 11}
  /\ leds[5] = Wheel(14)
  /\ leds[11] = Wheel(0)

\* the brightness step of an iteration of loop(), pulse flag inactive and the
\* coefficient at 1.0: it writes the hardware brightness (and records the
\* value in last_brightness) exactly when brightness differs from
\* last_brightness; every iteration of SpecBright runs the brightness step
BrightnessStep ==
  LoopStep /\ ~standby /\ ~pulse_animation /\ coefficient = CoefficientOne =>
    /\ last_brightness' # last_brightness <=> last_brightness # brightness
    /\ last_brightness = brightness => hwBrightness' = hwBrightness
    /\ last_brightness # brightness => last_brightness' = brightness

\* C27: with the pulse flag inactive and the coefficient at 1.0 a brightness
\* tick writes the hardware brightness if and only if the commanded
\* brightness differs from the last applied one, and the last applied value
\* is the commanded one after the write; with the lamp on and ticks
\* continuing, the hardware brightness eventually equals the commanded
\* brightness.
C27_BrightnessApplied ==
  /\ [][BrightnessStep]_vars
  /\ ~standby ~> (standby \/ hwBrightness = brightness)

\* a Press command builds the table from the colour it finds: entry 0 is
\* current_colour and entry 29 a fifth of it, per channel
PulseTableEnds ==
  lastCmd'.op = "Press" =>
    /\ DOMAIN pulse' = PulseAddrs
    /\ Cardinality(DOMAIN pulse') = 30
    /\ pulse'[0] = current_colour
    /\ \A i \in Channels : pulse'[29][i] = current_colour[i] \div 5

\* a tick of the pulse moves the cursor by one: back from 29, forth from 0,
\* on in the direction it has in between
CursorBounce ==
  LoopStep /\ pulse_animation =>
    /\ Abs(pulse_addr' - pulse_addr) = 1
    /\ pulse_addr = 29 => pulse_addr' = 28
    /\ pulse_addr = 0 => pulse_addr' = 1
    /\ pulse_addr \in 1 .. 28 =>
         /\ cursor_direction' = cursor_direction
         /\ pulse_addr' - pulse_addr = IF cursor_direction THEN 1 ELSE -1
    /\ cursor_direction' = (pulse_addr' > pulse_addr)

\* C28: the pulse table has 30 entries, entry 0 equal to current_colour and
\* entry 29 to current_colour / 5 per channel; the pulse cursor stays within
\* 0..29 after any sequence of Press and Release commands and pulse ticks,
\* moves by exactly 1 per tick and reverses its direction exactly at 0 and at
\* 29.
C28_PulseCursor ==
  /\ [](pulse_addr \in PulseAddrs)
  /\ [][PulseTableEnds]_vars
  /\ [][CursorBounce]_vars

\* a second Press has come while the cursor was on its way down, and the
\* next tick has turned the cursor at 0
C28_Witness ==
  /\ lastCmd.op = "loop"
  /\ pulse_animation
  /\ delivered = 2
  /\ pulse_addr = 1
  /\ cursor_direction
  /\ pulse[0] = <<51, 25, 1>>
  /\ pulse[29] = <<10, 5, 0>>

\* the fade has arrived: target_met is set, current_colour is the target and
\* the strip shows the target on every pixel
FadeDone ==
  /\ target_met
  /\ current_colour = target_colour
  /\ shown = [p \in Pixels |-> target_colour]

\* C29: from every state with Mode = Color and the lamp on, with the LED
\* timer firing for ever and no command that leaves Color mode or switches
\* the lamp off, the lamp eventually has target_met true, current_colour
\* equal to target_colour and the target on the strip; this holds also when
\* the target was committed again or the lamp switched off and on in the
\* middle of a fade.
C29_FadeCompletes ==
  (Mode = COLOUR /\ ~standby) ~> (Mode # COLOUR \/ standby \/ FadeDone)

\* a fade that was committed again in the middle of an earlier fade (its
\* table starts at a colour on the way) has arrived
C29_Witness ==
  /\ FadeDone
  /\ Mode = COLOUR
  /\ ~standby
  /\ lastCmd.op = "loop"
  /\ transition[0] \notin {Black, Wheel(1)}

\* C30: the cursor fadeToColourTarget() reads the transition table with is
\* an index of the table, 0..49, in every state, after any interleaving of
\* commands and ticks: no read falls outside the fifty entries.
C30_CursorInTable ==
  /\ DOMAIN transition = 0 .. 49
  /\ addr \in DOMAIN transition

\* the cursor is on the last entry of a table that was rebuilt in the middle
\* of the fade, the read of that entry still to come
C30_Witness ==
  /\ Mode = COLOUR
  /\ ~standby
  /\ ~target_met
  /\ addr = TransitionSteps - 1
  /\ transition[0] \notin {Black, Wheel(1)}

\* the step sets timer t
Fired(t) == timers'[t] # timers[t]

\* the milliseconds that have really passed since timer t was set, at the
\* moment the step tests it
ElapsedAtCheck(t) ==
  elapsed[t] + (elapsed'.total - elapsed.total)
    - (IF t = "brightnessTimer" /\ Fired(t) THEN elapsed'[t] ELSE 0)

\* the step runs the unit of work that timer t gates
WorkRan(t) ==
  CASE t = "brightnessTimer" -> <<brightVars>>' # <<brightVars>>
    [] t = "ledTimer" -> Mode = COLOUR /\ <<addr, target_met>>' # <<addr, target_met>>
    [] t = "twinkleTimer" -> Mode = TWINKLE /\ leds' # leds
    [] t = "rainbowTimer" -> offset' # offset
    [] t = "cycleTimer" -> cnt' # cnt

\* an iteration of loop(): work runs only with its timer set anew, a timer
\* is set only when its period has really passed since it was last set, and
\* the timers loop() tests are set whenever their period has passed
TimerGate ==
  LoopStep =>
    \A t \in TimerNames :
      /\ WorkRan(t) => Fired(t)
      /\ Fired(t) => ElapsedAtCheck(t) >= Timeout(t)
      /\ (~standby /\ t \in {"brightnessTimer", TimerOf(Mode)}
            /\ ElapsedAtCheck(t) >= Timeout(t)) => Fired(t)

\* C31: a timer-gated unit of work runs only when at least its period (20 ms
\* fade, 30 ms rainbow, 40 ms cycle, 50 ms twinkle and brightness) has passed
\* since its timer was last set; the time timerExpired() computes, clock
\* minus start modulo 2^32, is the time that has really passed, so the gate
\* is right across the wrap of the millisecond clock.
C31_TimerGate ==
  /\ [](\A t \in TimerNames : Sub32(runTime, timers[t]) = <<0, elapsed[t]>>)
  /\ [][TimerGate]_vars

\* the clock has wrapped (the Twinkle timer still holds a start time from
\* before the wrap) and the LED timer has expired and been set since
C31_Witness ==
  /\ lastCmd.op = "loop"
  /\ runTime[1] = 0
  /\ timers.twinkleTimer[1] = Half - 1
  /\ timers.ledTimer[1] = 0
  /\ elapsed.ledTimer = 0

=============================================================================
